---- MODULE Spec2Model ----
(***************************************************************************)
(* A model of the hz-crud-api service: the handlers of src/src/main.rs and *)
(* src/src/auth.rs over the relational store they share.                   *)
(*                                                                         *)
(* The store is one record, db, with one field per table (a set of rows)   *)
(* and the serial sequences.  Every handler is an operator from a request  *)
(* and a store to a response and the store it leaves; the actions apply    *)
(* the handlers to inputs drawn from small sets and record the request and *)
(* its response in last.  A handler's storage calls can be made to fail:   *)
(* the input fail names the call that returns Err (0: none does).          *)
(***************************************************************************)
EXTENDS Integers, Sequences, FiniteSets, TLC

VARIABLES db, now, last, inflight

vars == <<db, now, last, inflight>>

----------------------------------------------------------------------------
(* Bounds of the model *)

MaxOrgs == 2

MaxTokens == 2

MaxTime == 8

MaxEmployees == 2

MaxIngredients == 3

MaxRecipes == 1

MaxBatches == 1

MaxLogs == 1

MaxClients == 2

(* the connections of the pool in the runs that exhaust it: fewer than the  *)
(* clients                                                                  *)
MaxConnections == 1

MaxLen == 2

(* Duration::days(7), in days: the clock of the model counts days *)
TokenLifetime == 7

----------------------------------------------------------------------------
(* Input values *)

Names == {"n1", "n2"}

Emails == {"a@x", "b@x"}

Passwords == {"pw1", "pw2"}

Salts == {"s1"}

ValidDate == "2024-01-31"

BadDate == "31/01/2024"

Dates == {ValidDate, BadDate}

Nil == [nil |-> TRUE]

----------------------------------------------------------------------------
(* The store *)

Tables == {"organizations", "access_tokens", "employees", "ingredients",
           "recipes", "batches", "problem_logs"}

EmptyDb ==
    [organizations     |-> {},
     access_tokens     |-> {},
     employees         |-> {},
     ingredients       |-> {},
     recipes           |-> {},
     recipe_ingredients |-> {},
     batches           |-> {},
     batch_ingredients |-> {},
     problem_logs      |-> {},
     problem_logs_employees |-> {},
     seq               |-> [t \in Tables |-> 0]]

(* SERIAL primary key: the next value of a table's sequence *)
NextId(d, table) == d.seq[table] + 1

(* the column default of access_tokens.is_revoked, which no INSERT sets *)
DefaultIsRevoked == FALSE

(* the stored hash of an organization inserted without one (POST /api/orgs) *)
NoHash == [alg |-> "", salt |-> "", digest |-> ""]

(* a password_hash column that holds a text which is no PHC string *)
Plain(text) == [alg |-> "", salt |-> "", digest |-> text]

(* organizations(id) is referenced by the org_id of the entity tables *)
OrgExists(d, org_id) == \E o \in d.organizations : o.id = org_id

----------------------------------------------------------------------------
(* Responses *)

(* tx: what became of the request's transaction ("none": none was begun) *)
TxResponse(status, body, d, tx) ==
    [status |-> status, body |-> body, db |-> d, tx |-> tx]

Response(status, body, d) == TxResponse(status, body, d, "none")

ErrorBody(msg) == [error |-> msg]

(* the Authorization header of a request *)
NoHeader == [scheme |-> "", credentials |-> Nil]

Bearer(token) == [scheme |-> "Bearer", credentials |-> token]

Basic(token) == [scheme |-> "Basic", credentials |-> token]

----------------------------------------------------------------------------
(* auth.rs: passwords *)

(* the Argon2 digest of a password under a salt: one-way, so a value that  *)
(* is neither the password nor the salt                                    *)
Argon2(password, salt) == <<"argon2id", salt, password>>

hash_password(password, salt) ==
    [hash |-> [alg |-> "argon2id", salt |-> salt, digest |-> Argon2(password, salt)],
     salt |-> salt]

(* a verification that parses the stored hash and compares nothing *)
verify_password_of_anyone(password, hash) == hash.alg = "argon2id"

verify_password(password, hash) ==
    IF hash.alg # "argon2id"
    THEN FALSE
    ELSE Argon2(password, hash.salt) = hash.digest

----------------------------------------------------------------------------
(* auth.rs: tokens *)

(* the signed claim set; exp and iat come from two reads of the clock and  *)
(* jti is a fresh uuid                                                     *)
generate_token(org_id, now_exp, now_iat, jti) ==
    [sub |-> org_id, exp |-> now_exp + TokenLifetime, iat |-> now_iat, jti |-> jti]

(* a well-formed token string that no login ever returned *)
ForgedToken == [sub |-> 1, exp |-> TokenLifetime, iat |-> 0, jti |-> 0]

get_token_from_request(header) ==
    IF header.scheme = "Bearer" THEN header.credentials ELSE Nil

Unauthorized(msg) == [ok |-> FALSE, err |-> "Unauthorized", msg |-> msg, org_id |-> 0]

DatabaseError == [ok |-> FALSE, err |-> "DatabaseError", msg |-> "", org_id |-> 0]

AuthOk(org_id) == [ok |-> TRUE, err |-> "", msg |-> "", org_id |-> org_id]

(* a resolver that never looks at is_revoked *)
verify_auth_ignoring_revocation(header, d, clock, fail) ==
    IF header.scheme # "Bearer"
    THEN Unauthorized("Missing or invalid authorization header")
    ELSE IF fail = 1
    THEN DatabaseError
    ELSE LET rows == {r \in d.access_tokens : r.token = header.credentials}
         IN  IF rows = {}
             THEN Unauthorized("Invalid token")
             ELSE LET record == CHOOSE r \in rows : TRUE
                  IN  IF record.expires_at < clock
                      THEN Unauthorized("Token has expired")
                      ELSE AuthOk(record.org_id)

(* a resolver that compares expires_at with the clock before it looks at   *)
(* is_revoked                                                              *)
verify_auth_expiry_first(header, d, clock, fail) ==
    IF header.scheme # "Bearer"
    THEN Unauthorized("Missing or invalid authorization header")
    ELSE IF fail = 1
    THEN DatabaseError
    ELSE LET rows == {r \in d.access_tokens : r.token = header.credentials}
         IN  IF rows = {}
             THEN Unauthorized("Invalid token")
             ELSE LET record == CHOOSE r \in rows : TRUE
                  IN  IF record.expires_at < clock
                      THEN Unauthorized("Token has expired")
                      ELSE IF record.is_revoked
                      THEN Unauthorized("Token has been revoked")
                      ELSE AuthOk(record.org_id)

(* fail: 1 the SELECT *)
verify_auth(header, d, clock, fail) ==
    IF header.scheme # "Bearer"
    THEN Unauthorized("Missing or invalid authorization header")
    ELSE IF fail = 1
    THEN DatabaseError
    ELSE LET rows == {r \in d.access_tokens : r.token = header.credentials}
         IN  IF rows = {}
             THEN Unauthorized("Invalid token")
             ELSE LET record == CHOOSE r \in rows : TRUE
                  IN  IF record.is_revoked
                      THEN Unauthorized("Token has been revoked")
                      ELSE IF record.expires_at < clock
                      THEN Unauthorized("Token has expired")
                      ELSE AuthOk(record.org_id)

OrganizationBody(o) == [id |-> o.id, name |-> o.name, email |-> o.email]

(* an insert that files every token under organization 1 *)
InsertTokenForFirst(d, token, org_id, expires_at) ==
    [d EXCEPT !.access_tokens = @ \cup
        {[token |-> token, org_id |-> 1, expires_at |-> expires_at,
          is_revoked |-> DefaultIsRevoked]},
              !.seq["access_tokens"] = @ + 1]

(* an insert that also clears is_revoked on the organization's older rows *)
InsertTokenReviving(d, token, org_id, expires_at) ==
    [d EXCEPT !.access_tokens =
                  {IF r.org_id = org_id THEN [r EXCEPT !.is_revoked = FALSE] ELSE r
                      : r \in @}
                      \cup {[token |-> token, org_id |-> org_id,
                              expires_at |-> expires_at,
                              is_revoked |-> DefaultIsRevoked]},
              !.seq["access_tokens"] = @ + 1]

(* INSERT INTO access_tokens (token, org_id, expires_at) *)
InsertToken(d, token, org_id, expires_at) ==
    [d EXCEPT !.access_tokens = @ \cup
        {[token |-> token, org_id |-> org_id, expires_at |-> expires_at,
          is_revoked |-> DefaultIsRevoked]},
              !.seq["access_tokens"] = @ + 1]

(* fail: 1 hashing, 2 the organization insert, 3 token generation, 4 the   *)
(* token insert                                                            *)
register_organization(req, salt, d, clock, fail) ==
    IF fail = 1
    THEN Response(500, ErrorBody("Failed to hash password"), d)
    ELSE IF fail = 2
    THEN Response(500, ErrorBody("Failed to register organization"), d)
    ELSE LET hashed == hash_password(req.password, salt)
             record == [id |-> NextId(d, "organizations"), name |-> req.name,
                        email |-> req.email, password_hash |-> hashed.hash,
                        password_salt |-> hashed.salt]
             d1 == [d EXCEPT !.organizations = @ \cup {record},
                             !.seq["organizations"] = record.id]
             token == generate_token(record.id, clock, clock, NextId(d, "access_tokens"))
         IN  IF fail = 3
             THEN Response(500, ErrorBody("Failed to generate authentication token"), d1)
             ELSE IF fail = 4
             THEN Response(500, ErrorBody("Failed to create authentication token"), d1)
             ELSE Response(201,
                           [token |-> token, organization |-> OrganizationBody(record)],
                           InsertToken(d1, token, record.id, clock + TokenLifetime))

(* a login that tells an unknown email from a wrong password *)
login_naming_the_unknown(req, record, d, clock, fail) ==
    IF fail = 1
    THEN Response(500, ErrorBody("Failed to authenticate"), d)
    ELSE IF record = Nil
    THEN Response(401, ErrorBody("Organization not found"), d)
    ELSE IF ~verify_password(req.password, record.password_hash)
    THEN Response(401, ErrorBody("Invalid credentials"), d)
    ELSE LET token == generate_token(record.id, clock, clock, NextId(d, "access_tokens"))
         IN  IF fail = 2
             THEN Response(500, ErrorBody("Failed to generate authentication token"), d)
             ELSE IF fail = 3
             THEN Response(500, ErrorBody("Failed to create authentication token"), d)
             ELSE Response(200,
                           [token |-> token, organization |-> OrganizationBody(record)],
                           InsertToken(d, token, record.id, clock + TokenLifetime))

(* fail: 1 the organization lookup, 2 token generation, 3 the token insert; *)
(* record is the row fetch_optional returns for the email, Nil for none     *)
login_organization(req, record, d, clock, fail) ==
    IF fail = 1
    THEN Response(500, ErrorBody("Failed to authenticate"), d)
    ELSE IF record = Nil
    THEN Response(401, ErrorBody("Invalid credentials"), d)
    ELSE IF ~verify_password(req.password, record.password_hash)
    THEN Response(401, ErrorBody("Invalid credentials"), d)
    ELSE LET token == generate_token(record.id, clock, clock, NextId(d, "access_tokens"))
         IN  IF fail = 2
             THEN Response(500, ErrorBody("Failed to generate authentication token"), d)
             ELSE IF fail = 3
             THEN Response(500, ErrorBody("Failed to create authentication token"), d)
             ELSE Response(200,
                           [token |-> token, organization |-> OrganizationBody(record)],
                           InsertToken(d, token, record.id, clock + TokenLifetime))

(* the rows SELECT ... FROM organizations WHERE email = $1 can return *)
LoginRecords(d, email) ==
    LET rows == {o \in d.organizations : o.email = email}
    IN  IF rows = {} THEN {Nil} ELSE rows

(* a logout that flips is_revoked instead of setting it *)
logout_flipping(header, d, fail) ==
    LET token == get_token_from_request(header)
    IN  IF token = Nil
        THEN Response(400, ErrorBody("No authentication token provided"), d)
        ELSE IF fail = 1
        THEN Response(500, ErrorBody("Failed to logout"), d)
        ELSE Response(200, [message |-> "Logged out successfully"],
                      [d EXCEPT !.access_tokens =
                          {IF r.token = token
                           THEN [r EXCEPT !.is_revoked = ~r.is_revoked] ELSE r
                             : r \in @}])

(* a logout that ends every session of the organization the token belongs to *)
logout_everywhere(header, d, fail) ==
    LET token == get_token_from_request(header)
    IN  IF token = Nil
        THEN Response(400, ErrorBody("No authentication token provided"), d)
        ELSE IF fail = 1
        THEN Response(500, ErrorBody("Failed to logout"), d)
        ELSE Response(200, [message |-> "Logged out successfully"],
                      [d EXCEPT !.access_tokens =
                          {IF \E t \in d.access_tokens :
                                 t.token = token /\ t.org_id = r.org_id
                           THEN [r EXCEPT !.is_revoked = TRUE] ELSE r
                             : r \in @}])

(* fail: 1 the UPDATE *)
logout_organization(header, d, fail) ==
    LET token == get_token_from_request(header)
    IN  IF token = Nil
        THEN Response(400, ErrorBody("No authentication token provided"), d)
        ELSE IF fail = 1
        THEN Response(500, ErrorBody("Failed to logout"), d)
        ELSE Response(200, [message |-> "Logged out successfully"],
                      [d EXCEPT !.access_tokens =
                          {IF r.token = token THEN [r EXCEPT !.is_revoked = TRUE] ELSE r
                             : r \in @}])

----------------------------------------------------------------------------
(* main.rs: health *)

(* a health check that asks the store and reports its failure *)
health_check_probing(d, fail) ==
    IF fail = 1
    THEN Response(500, ErrorBody("Internal server error"), d)
    ELSE Response(200, [status |-> "healthy"], d)

(* the handler takes neither the request nor the application state: it    *)
(* makes no storage call, so none of them can fail it                     *)
health_check(d, fail) == Response(200, [status |-> "healthy"], d)

----------------------------------------------------------------------------
(* main.rs: organizations *)

(* a creation that answers with the payload but stores the name in the     *)
(* email column too                                                        *)
create_organization_misfiled(org, d, fail) ==
    IF fail = 1
    THEN Response(500, ErrorBody("Failed to create organization"), d)
    ELSE LET record == [id |-> NextId(d, "organizations"), name |-> org.name,
                        email |-> org.name, password_hash |-> NoHash,
                        password_salt |-> ""]
         IN  Response(201, [id |-> record.id, name |-> org.name, email |-> org.email],
                      [d EXCEPT !.organizations = @ \cup {record},
                                !.seq["organizations"] = record.id])

(* fail: 1 the INSERT *)
create_organization(org, d, fail) ==
    IF fail = 1
    THEN Response(500, ErrorBody("Failed to create organization"), d)
    ELSE LET record == [id |-> NextId(d, "organizations"), name |-> org.name,
                        email |-> org.email, password_hash |-> NoHash,
                        password_salt |-> ""]
         IN  Response(201, [id |-> record.id, name |-> org.name, email |-> org.email],
                      [d EXCEPT !.organizations = @ \cup {record},
                                !.seq["organizations"] = record.id])

(* fail: 1 the SELECT *)
get_organization(id, d, fail) ==
    IF fail = 1
    THEN Response(500, ErrorBody("Internal server error"), d)
    ELSE LET rows == {o \in d.organizations : o.id = id}
         IN  IF rows = {}
             THEN Response(404, ErrorBody("Organization not found"), d)
             ELSE Response(200, OrganizationBody(CHOOSE o \in rows : TRUE), d)

(* fail: 1 the SELECT; the rows come in no stated order: the body is their set *)
get_all_organizations(d, fail) ==
    IF fail = 1
    THEN Response(500, ErrorBody("Internal server error"), d)
    ELSE Response(200, [list |-> {OrganizationBody(o) : o \in d.organizations}], d)

(* an UPDATE without its WHERE clause *)
update_organization_everywhere(id, org, d, fail) ==
    IF fail = 1
    THEN Response(500, ErrorBody("Internal server error"), d)
    ELSE IF ~OrgExists(d, id)
    THEN Response(404, ErrorBody("Organization not found"), d)
    ELSE Response(200, [id |-> id, name |-> org.name, email |-> org.email],
                  [d EXCEPT !.organizations =
                      {[o EXCEPT !.name = org.name, !.email = org.email] : o \in @}])

(* fail: 1 the UPDATE *)
update_organization(id, org, d, fail) ==
    IF fail = 1
    THEN Response(500, ErrorBody("Internal server error"), d)
    ELSE IF ~OrgExists(d, id)
    THEN Response(404, ErrorBody("Organization not found"), d)
    ELSE Response(200, [id |-> id, name |-> org.name, email |-> org.email],
                  [d EXCEPT !.organizations =
                      {IF o.id = id
                       THEN [o EXCEPT !.name = org.name, !.email = org.email]
                       ELSE o : o \in @}])

(* ON DELETE CASCADE of the tables that reference organizations(id), and of *)
(* the association rows of the recipes and batches that go with it; the     *)
(* rows of access_tokens are kept                                           *)
CascadeDeleteOrganization(d, id) ==
    LET gone_recipes == {r.id : r \in {x \in d.recipes : x.org_id = id}}
        gone_batches == {b.id : b \in {x \in d.batches : x.org_id = id}}
        gone_ingredients == {i.id : i \in {x \in d.ingredients : x.org_id = id}}
    IN  [d EXCEPT
            !.organizations = {o \in @ : o.id # id},
            !.employees = {e \in @ : e.org_id # id},
            !.ingredients = {i \in @ : i.org_id # id},
            !.recipes = {r \in @ : r.org_id # id},
            !.batches = {b \in @ : b.org_id # id},
            !.recipe_ingredients =
                {l \in @ : l.recipe_id \notin gone_recipes
                           /\ l.ingredient_id \notin gone_ingredients},
            !.batch_ingredients =
                {l \in @ : l.batch_id \notin gone_batches
                           /\ l.ingredient_id \notin gone_ingredients}]

(* a deletion that takes the organization's rows of access_tokens along *)
delete_organization_purging(id, d, fail) ==
    IF fail = 1
    THEN Response(500, ErrorBody("Internal server error"), d)
    ELSE IF ~OrgExists(d, id)
    THEN Response(404, ErrorBody("Organization not found"), d)
    ELSE Response(204, Nil,
                  [CascadeDeleteOrganization(d, id)
                      EXCEPT !.access_tokens = {r \in @ : r.org_id # id}])

(* a deletion that answers 204 and keeps the row *)
delete_organization_keeping(id, d, fail) ==
    IF fail = 1
    THEN Response(500, ErrorBody("Internal server error"), d)
    ELSE IF ~OrgExists(d, id)
    THEN Response(404, ErrorBody("Organization not found"), d)
    ELSE Response(204, Nil, d)

(* a deletion that removes the row of organizations and nothing else *)
delete_organization_alone(id, d, fail) ==
    IF fail = 1
    THEN Response(500, ErrorBody("Internal server error"), d)
    ELSE IF ~OrgExists(d, id)
    THEN Response(404, ErrorBody("Organization not found"), d)
    ELSE Response(204, Nil, [d EXCEPT !.organizations = {o \in @ : o.id # id}])

(* an ingredient of the organization is referenced by an association row of *)
(* a recipe or batch of another organization: that row does not go with the *)
(* organization, so the store refuses the cascade                           *)
OrganizationReferenced(d, id) ==
    LET own_ingredients == {i.id : i \in {x \in d.ingredients : x.org_id = id}}
        own_recipes == {r.id : r \in {x \in d.recipes : x.org_id = id}}
        own_batches == {b.id : b \in {x \in d.batches : x.org_id = id}}
    IN  \/ \E l \in d.recipe_ingredients :
               l.ingredient_id \in own_ingredients /\ l.recipe_id \notin own_recipes
        \/ \E l \in d.batch_ingredients :
               l.ingredient_id \in own_ingredients /\ l.batch_id \notin own_batches

(* fail: 1 the DELETE *)
delete_organization(id, d, fail) ==
    IF fail = 1 \/ (OrgExists(d, id) /\ OrganizationReferenced(d, id))
    THEN Response(500, ErrorBody("Internal server error"), d)
    ELSE IF ~OrgExists(d, id)
    THEN Response(404, ErrorBody("Organization not found"), d)
    ELSE Response(204, Nil, CascadeDeleteOrganization(d, id))

----------------------------------------------------------------------------
(* main.rs: employees *)

EmployeeBody(e) == [id |-> e.id, name |-> e.name, role |-> e.role, org_id |-> e.org_id]

(* fail: 1 the INSERT; the INSERT also fails on an org_id that references no *)
(* organization                                                             *)
create_employee(employee, d, fail) ==
    IF fail = 1 \/ ~OrgExists(d, employee.org_id)
    THEN Response(500, ErrorBody("Failed to create employee"), d)
    ELSE LET record == [id |-> NextId(d, "employees"), name |-> employee.name,
                        role |-> employee.role, org_id |-> employee.org_id]
         IN  Response(201, EmployeeBody(record),
                      [d EXCEPT !.employees = @ \cup {record},
                                !.seq["employees"] = record.id])

(* fail: 1 the SELECT *)
get_employee(id, d, fail) ==
    IF fail = 1
    THEN Response(500, ErrorBody("Internal server error"), d)
    ELSE LET rows == {e \in d.employees : e.id = id}
         IN  IF rows = {}
             THEN Response(404, ErrorBody("Employee not found"), d)
             ELSE Response(200, EmployeeBody(CHOOSE e \in rows : TRUE), d)

(* fail: 1 the SELECT *)
get_all_employees(d, fail) ==
    IF fail = 1
    THEN Response(500, ErrorBody("Internal server error"), d)
    ELSE Response(200, [list |-> {EmployeeBody(e) : e \in d.employees}], d)

(* fail: 1 the UPDATE *)
update_employee(id, employee, d, fail) ==
    IF fail = 1
    THEN Response(500, ErrorBody("Internal server error"), d)
    ELSE IF ~\E e \in d.employees : e.id = id
    THEN Response(404, ErrorBody("Employee not found"), d)
    ELSE IF ~OrgExists(d, employee.org_id)
    THEN Response(500, ErrorBody("Internal server error"), d)
    ELSE Response(200,
                  [id |-> id, name |-> employee.name, role |-> employee.role,
                   org_id |-> employee.org_id],
                  [d EXCEPT !.employees =
                      {IF e.id = id
                       THEN [e EXCEPT !.name = employee.name, !.role = employee.role,
                                      !.org_id = employee.org_id]
                       ELSE e : e \in @}])

(* fail: 1 the DELETE; the rows of problem_logs_employees that reference the *)
(* employee go with it                                                       *)
delete_employee(id, d, fail) ==
    IF fail = 1
    THEN Response(500, ErrorBody("Internal server error"), d)
    ELSE IF ~\E e \in d.employees : e.id = id
    THEN Response(404, ErrorBody("Employee not found"), d)
    ELSE Response(204, Nil,
                  [d EXCEPT !.employees = {e \in @ : e.id # id},
                            !.problem_logs_employees = {l \in @ : l.employee_id # id}])

----------------------------------------------------------------------------
(* main.rs: dates *)

(* NaiveDate::parse_from_str(s, "%Y-%m-%d") on the date strings of the model: *)
(* the numeric fields take one or two digits                                 *)
parse_date(s) ==
    CASE s = "2024-01-31" -> [ok |-> TRUE, date |-> <<2024, 1, 31>>]
      [] s = "2024-1-31"  -> [ok |-> TRUE, date |-> <<2024, 1, 31>>]
      [] OTHER            -> [ok |-> FALSE, date |-> <<0, 0, 0>>]

(* date::text of the store: ISO 8601, zero-padded *)
date_text(date) ==
    IF date = <<2024, 1, 31>> THEN "2024-01-31" ELSE ""

(* the ways a SELECT without ORDER BY can return a set of rows *)
Orders(S) ==
    {s \in [1..Cardinality(S) -> S] : \A i, j \in 1..Cardinality(S) : s[i] = s[j] => i = j}

Range(s) == {s[i] : i \in 1..Len(s)}

----------------------------------------------------------------------------
(* main.rs: ingredients *)

IngredientExists(d, id) == \E i \in d.ingredients : i.id = id

(* fail: 1 the INSERT *)
create_ingredient(ingredient, d, fail) ==
    IF ~parse_date(ingredient.date).ok
    THEN Response(400, ErrorBody("Invalid date format. Use YYYY-MM-DD"), d)
    ELSE IF fail = 1 \/ ~OrgExists(d, ingredient.org_id)
    THEN Response(500, ErrorBody("Failed to create ingredient"), d)
    ELSE LET record == [id |-> NextId(d, "ingredients"), lotcode |-> ingredient.lotcode,
                        name |-> ingredient.name,
                        date |-> parse_date(ingredient.date).date,
                        org_id |-> ingredient.org_id]
         IN  Response(201,
                      [id |-> record.id, lotcode |-> ingredient.lotcode,
                       name |-> ingredient.name, date |-> ingredient.date,
                       org_id |-> ingredient.org_id],
                      [d EXCEPT !.ingredients = @ \cup {record},
                                !.seq["ingredients"] = record.id])

(* fail: 1 the SELECT *)
get_ingredient(id, d, fail) ==
    IF fail = 1
    THEN Response(500, ErrorBody("Internal server error"), d)
    ELSE LET rows == {i \in d.ingredients : i.id = id}
         IN  IF rows = {}
             THEN Response(404, ErrorBody("Ingredient not found"), d)
             ELSE LET record == CHOOSE i \in rows : TRUE
                  IN  Response(200,
                               [id |-> record.id, lotcode |-> record.lotcode,
                                name |-> record.name, date |-> date_text(record.date),
                                org_id |-> record.org_id], d)

(* fail: 1 the UPDATE; a row that is not there is reported before the new  *)
(* org_id is checked against organizations                                 *)
update_ingredient(id, ingredient, d, fail) ==
    IF ~parse_date(ingredient.date).ok
    THEN Response(400, ErrorBody("Invalid date format. Use YYYY-MM-DD"), d)
    ELSE IF fail = 1
    THEN Response(500, ErrorBody("Internal server error"), d)
    ELSE IF ~IngredientExists(d, id)
    THEN Response(404, ErrorBody("Ingredient not found"), d)
    ELSE IF ~OrgExists(d, ingredient.org_id)
    THEN Response(500, ErrorBody("Internal server error"), d)
    ELSE Response(200,
                  [id |-> id, lotcode |-> ingredient.lotcode, name |-> ingredient.name,
                   date |-> ingredient.date, org_id |-> ingredient.org_id],
                  [d EXCEPT !.ingredients =
                      {IF i.id = id
                       THEN [i EXCEPT !.lotcode = ingredient.lotcode,
                                      !.name = ingredient.name,
                                      !.date = parse_date(ingredient.date).date,
                                      !.org_id = ingredient.org_id]
                       ELSE i : i \in @}])

(* a row of recipe_ingredients or batch_ingredients references the         *)
(* ingredient: the association rows go with the recipe or batch, not with  *)
(* the ingredient, so the store refuses to delete it                       *)
IngredientReferenced(d, id) ==
    \/ \E l \in d.recipe_ingredients : l.ingredient_id = id
    \/ \E l \in d.batch_ingredients : l.ingredient_id = id

(* a store that lets a referenced ingredient go *)
delete_ingredient_unreferenced(id, d, fail) ==
    IF fail = 1
    THEN Response(500, ErrorBody("Internal server error"), d)
    ELSE IF ~IngredientExists(d, id)
    THEN Response(404, ErrorBody("Ingredient not found"), d)
    ELSE Response(204, Nil, [d EXCEPT !.ingredients = {i \in @ : i.id # id}])

(* fail: 1 the DELETE *)
delete_ingredient(id, d, fail) ==
    IF fail = 1
    THEN Response(500, ErrorBody("Internal server error"), d)
    ELSE IF ~IngredientExists(d, id)
    THEN Response(404, ErrorBody("Ingredient not found"), d)
    ELSE IF IngredientReferenced(d, id)
    THEN Response(500, ErrorBody("Internal server error"), d)
    ELSE Response(204, Nil, [d EXCEPT !.ingredients = {i \in @ : i.id # id}])

----------------------------------------------------------------------------
(* main.rs: recipes *)

(* the rows of recipe_ingredients a request inserts for its ingredients list *)
RecipeLinks(recipe_id, ingredients) ==
    {[recipe_id |-> recipe_id, ingredient_id |-> ingredients[k]]
        : k \in 1..Len(ingredients)}

(* whether every INSERT INTO recipe_ingredients of the list is accepted: the *)
(* ingredient exists and the pair (recipe_id, ingredient_id) is not there yet *)
LinksAccepted(d, ingredients) ==
    /\ \A k \in 1..Len(ingredients) : IngredientExists(d, ingredients[k])
    /\ \A j, k \in 1..Len(ingredients) : ingredients[j] = ingredients[k] => j = k

(* an update that inserts the new rows of recipe_ingredients and deletes    *)
(* none                                                                    *)
AppendRecipeLinks(d, id, ingredients) ==
    d.recipe_ingredients \cup RecipeLinks(id, ingredients)

(* DELETE FROM recipe_ingredients WHERE recipe_id = $1, then one INSERT for *)
(* each member of the list                                                  *)
ReplaceRecipeLinks(d, id, ingredients) ==
    {l \in d.recipe_ingredients : l.recipe_id # id} \cup RecipeLinks(id, ingredients)

RecipeBody(id, recipe) ==
    [id |-> id, lotcode |-> recipe.lotcode, name |-> recipe.name,
     date_made |-> recipe.date_made, org_id |-> recipe.org_id,
     ingredients |-> recipe.ingredients, description |-> recipe.description]

(* a create that answers a failed association INSERT without rolling back:   *)
(* the recipe row stays                                                      *)
create_recipe_without_rollback(recipe, d, fail) ==
    IF ~parse_date(recipe.date_made).ok
    THEN Response(400, ErrorBody("Invalid date format. Use YYYY-MM-DD"), d)
    ELSE IF fail = 1
    THEN TxResponse(500, ErrorBody("Internal server error"), d, "begin failed")
    ELSE IF fail = 2 \/ ~OrgExists(d, recipe.org_id)
    THEN TxResponse(500, ErrorBody("Failed to create recipe"), d, "rolled back")
    ELSE LET recipe_id == NextId(d, "recipes")
             record == [id |-> recipe_id, lotcode |-> recipe.lotcode,
                        name |-> recipe.name,
                        date_made |-> parse_date(recipe.date_made).date,
                        org_id |-> recipe.org_id, description |-> recipe.description]
             stored == [d EXCEPT !.recipes = @ \cup {record},
                                 !.seq["recipes"] = recipe_id]
         IN  IF (fail = 3 /\ recipe.ingredients # <<>>)
                \/ ~LinksAccepted(d, recipe.ingredients)
             THEN TxResponse(500, ErrorBody("Failed to create recipe"), stored, "none")
             ELSE IF fail = 4
             THEN TxResponse(500, ErrorBody("Internal server error"), d, "commit failed")
             ELSE TxResponse(201, RecipeBody(recipe_id, recipe),
                             [stored EXCEPT !.recipe_ingredients =
                                 @ \cup RecipeLinks(recipe_id, recipe.ingredients)],
                             "committed")

(* fail: 1 begin, 2 the INSERT INTO recipes, 3 an INSERT INTO                *)
(* recipe_ingredients, 4 commit                                              *)
create_recipe(recipe, d, fail) ==
    IF ~parse_date(recipe.date_made).ok
    THEN Response(400, ErrorBody("Invalid date format. Use YYYY-MM-DD"), d)
    ELSE IF fail = 1
    THEN TxResponse(500, ErrorBody("Internal server error"), d, "begin failed")
    ELSE IF fail = 2 \/ ~OrgExists(d, recipe.org_id)
    THEN TxResponse(500, ErrorBody("Failed to create recipe"), d, "rolled back")
    ELSE IF (fail = 3 /\ recipe.ingredients # <<>>) \/ ~LinksAccepted(d, recipe.ingredients)
    THEN TxResponse(500, ErrorBody("Failed to create recipe"), d, "rolled back")
    ELSE IF fail = 4
    THEN TxResponse(500, ErrorBody("Internal server error"), d, "commit failed")
    ELSE LET recipe_id == NextId(d, "recipes")
             record == [id |-> recipe_id, lotcode |-> recipe.lotcode,
                        name |-> recipe.name,
                        date_made |-> parse_date(recipe.date_made).date,
                        org_id |-> recipe.org_id, description |-> recipe.description]
         IN  TxResponse(201, RecipeBody(recipe_id, recipe),
                        [d EXCEPT !.recipes = @ \cup {record},
                                  !.recipe_ingredients =
                                      @ \cup RecipeLinks(recipe_id, recipe.ingredients),
                                  !.seq["recipes"] = recipe_id],
                        "committed")

(* the body built from a row of recipes and its ingredient ids as fetched *)
RecipeRowBody(record, ingredients) ==
    [id |-> record.id, lotcode |-> record.lotcode, name |-> record.name,
     date_made |-> date_text(record.date_made), org_id |-> record.org_id,
     ingredients |-> ingredients, description |-> record.description]

RecipeIngredientIds(d, recipe_id) ==
    {l.ingredient_id : l \in {x \in d.recipe_ingredients : x.recipe_id = recipe_id}}

(* fail: 1 the SELECT; order: the order in which ARRAY(SELECT ...) lists the *)
(* ingredient ids                                                            *)
get_recipe(id, order, d, fail) ==
    IF fail = 1
    THEN Response(500, ErrorBody("Internal server error"), d)
    ELSE LET rows == {r \in d.recipes : r.id = id}
         IN  IF rows = {}
             THEN Response(404, ErrorBody("Recipe not found"), d)
             ELSE Response(200, RecipeRowBody(CHOOSE r \in rows : TRUE, order), d)

(* fail: 1 the SELECT; the rows and the arrays come in no stated order: the *)
(* body holds them as sets                                                  *)
get_all_recipes(d, fail) ==
    IF fail = 1
    THEN Response(500, ErrorBody("Internal server error"), d)
    ELSE Response(200,
                  [list |-> {RecipeRowBody(r, RecipeIngredientIds(d, r.id))
                                : r \in d.recipes}], d)

(* fail: 1 begin, 2 the UPDATE, 3 the DELETE FROM recipe_ingredients, 4 an    *)
(* INSERT INTO recipe_ingredients, 5 commit                                  *)
update_recipe(id, recipe, d, fail) ==
    IF ~parse_date(recipe.date_made).ok
    THEN Response(400, ErrorBody("Invalid date format. Use YYYY-MM-DD"), d)
    ELSE IF fail = 1
    THEN TxResponse(500, ErrorBody("Internal server error"), d, "begin failed")
    ELSE IF fail = 2
    THEN TxResponse(500, ErrorBody("Internal server error"), d, "rolled back")
    ELSE IF ~\E r \in d.recipes : r.id = id
    THEN TxResponse(404, ErrorBody("Recipe not found"), d, "rolled back")
    ELSE IF ~OrgExists(d, recipe.org_id)
    THEN TxResponse(500, ErrorBody("Internal server error"), d, "rolled back")
    ELSE IF fail = 3
    THEN TxResponse(500, ErrorBody("Failed to update recipe"), d, "rolled back")
    ELSE IF (fail = 4 /\ recipe.ingredients # <<>>) \/ ~LinksAccepted(d, recipe.ingredients)
    THEN TxResponse(500, ErrorBody("Failed to update recipe"), d, "rolled back")
    ELSE IF fail = 5
    THEN TxResponse(500, ErrorBody("Internal server error"), d, "commit failed")
    ELSE TxResponse(200, RecipeBody(id, recipe),
                    [d EXCEPT
                        !.recipes =
                            {IF r.id = id
                             THEN [r EXCEPT !.lotcode = recipe.lotcode,
                                            !.name = recipe.name,
                                            !.date_made = parse_date(recipe.date_made).date,
                                            !.org_id = recipe.org_id,
                                            !.description = recipe.description]
                             ELSE r : r \in @},
                        !.recipe_ingredients =
                            ReplaceRecipeLinks(d, id, recipe.ingredients)],
                    "committed")

(* fail: 1 begin, 2 the DELETE FROM recipe_ingredients, 3 the DELETE FROM    *)
(* recipes, 4 commit                                                         *)
delete_recipe(id, d, fail) ==
    IF fail = 1
    THEN TxResponse(500, ErrorBody("Internal server error"), d, "begin failed")
    ELSE IF fail = 2
    THEN TxResponse(500, ErrorBody("Failed to delete recipe"), d, "rolled back")
    ELSE IF fail = 3
    THEN TxResponse(500, ErrorBody("Internal server error"), d, "rolled back")
    ELSE IF ~\E r \in d.recipes : r.id = id
    THEN TxResponse(404, ErrorBody("Recipe not found"), d, "rolled back")
    ELSE IF fail = 4
    THEN TxResponse(500, ErrorBody("Internal server error"), d, "commit failed")
    ELSE TxResponse(204, Nil,
                    [d EXCEPT !.recipes = {r \in @ : r.id # id},
                              !.recipe_ingredients = {l \in @ : l.recipe_id # id}],
                    "committed")

----------------------------------------------------------------------------
(* main.rs: batches *)

(* rows that put the amounts beside the ingredients in the opposite order *)
BatchLinksReversed(batch_id, ingredients, amount_ingredients) ==
    {[batch_id |-> batch_id, ingredient_id |-> ingredients[k],
      amount |-> amount_ingredients[Len(ingredients) + 1 - k]]
        : k \in 1..Len(ingredients)}

(* the rows of batch_ingredients a request inserts: amount_ingredients[index] *)
(* beside ingredients[index]                                                 *)
BatchLinks(batch_id, ingredients, amount_ingredients) ==
    {[batch_id |-> batch_id, ingredient_id |-> ingredients[k],
      amount |-> amount_ingredients[k]] : k \in 1..Len(ingredients)}

BatchBody(id, batch) ==
    [id |-> id, org_id |-> batch.org_id, employee |-> batch.employee,
     recipe_lotcode |-> batch.recipe_lotcode, batch_lot_code |-> batch.batch_lot_code,
     ingredients |-> batch.ingredients, amount_ingredients |-> batch.amount_ingredients,
     date_made |-> batch.date_made, amount_made |-> batch.amount_made]

(* the transaction of create_batch; fail: 1 begin, 2 the INSERT INTO        *)
(* batches, 3 an INSERT INTO batch_ingredients, 4 commit                    *)
insert_batch(batch, d, fail) ==
    IF fail = 1
    THEN TxResponse(500, ErrorBody("Internal server error"), d, "begin failed")
    ELSE IF fail = 2 \/ ~OrgExists(d, batch.org_id)
    THEN TxResponse(500, ErrorBody("Failed to create batch"), d, "rolled back")
    ELSE IF (fail = 3 /\ batch.ingredients # <<>>) \/ ~LinksAccepted(d, batch.ingredients)
    THEN TxResponse(500, ErrorBody("Failed to create batch"), d, "rolled back")
    ELSE IF fail = 4
    THEN TxResponse(500, ErrorBody("Internal server error"), d, "commit failed")
    ELSE LET batch_id == NextId(d, "batches")
             record == [id |-> batch_id, org_id |-> batch.org_id,
                        employee |-> batch.employee,
                        recipe_lotcode |-> batch.recipe_lotcode,
                        batch_lot_code |-> batch.batch_lot_code,
                        date_made |-> parse_date(batch.date_made).date,
                        amount_made |-> batch.amount_made]
         IN  TxResponse(201, BatchBody(batch_id, batch),
                        [d EXCEPT !.batches = @ \cup {record},
                                  !.batch_ingredients =
                                      @ \cup BatchLinks(batch_id, batch.ingredients,
                                                        batch.amount_ingredients),
                                  !.seq["batches"] = batch_id],
                        "committed")

(* a creation that compares the lengths once its transaction is open *)
create_batch_checking_late(batch, d, fail) ==
    IF ~parse_date(batch.date_made).ok
    THEN Response(400, ErrorBody("Invalid date format. Use YYYY-MM-DD"), d)
    ELSE IF fail = 1
    THEN TxResponse(500, ErrorBody("Internal server error"), d, "begin failed")
    ELSE IF Len(batch.ingredients) # Len(batch.amount_ingredients)
    THEN TxResponse(400, ErrorBody("Ingredients and amounts must have the same length"),
                    d, "rolled back")
    ELSE insert_batch(batch, d, fail)

(* a creation that parses the date once its transaction is open *)
create_batch_parsing_late(batch, d, fail) ==
    IF fail = 1
    THEN TxResponse(500, ErrorBody("Internal server error"), d, "begin failed")
    ELSE IF ~parse_date(batch.date_made).ok
    THEN TxResponse(400, ErrorBody("Invalid date format. Use YYYY-MM-DD"), d,
                    "rolled back")
    ELSE IF Len(batch.ingredients) # Len(batch.amount_ingredients)
    THEN Response(400, ErrorBody("Ingredients and amounts must have the same length"), d)
    ELSE insert_batch(batch, d, fail)

(* the date, then the lengths of the two arrays, then the transaction *)
create_batch(batch, d, fail) ==
    IF ~parse_date(batch.date_made).ok
    THEN Response(400, ErrorBody("Invalid date format. Use YYYY-MM-DD"), d)
    ELSE IF Len(batch.ingredients) # Len(batch.amount_ingredients)
    THEN Response(400, ErrorBody("Ingredients and amounts must have the same length"), d)
    ELSE insert_batch(batch, d, fail)

BatchRows(d, batch_id) == {l \in d.batch_ingredients : l.batch_id = batch_id}

(* fail: 1 the SELECT FROM batches, 2 the SELECT FROM batch_ingredients;     *)
(* order: the rows of batch_ingredients as the second SELECT returns them    *)
get_batch(id, order, d, fail) ==
    IF fail = 1
    THEN Response(500, ErrorBody("Internal server error"), d)
    ELSE LET rows == {b \in d.batches : b.id = id}
         IN  IF rows = {}
             THEN Response(404, ErrorBody("Batch not found"), d)
             ELSE IF fail = 2
             THEN Response(500, ErrorBody("Internal server error"), d)
             ELSE LET batch_record == CHOOSE b \in rows : TRUE
                  IN  Response(200,
                          [id |-> batch_record.id, org_id |-> batch_record.org_id,
                           employee |-> batch_record.employee,
                           recipe_lotcode |-> batch_record.recipe_lotcode,
                           batch_lot_code |-> batch_record.batch_lot_code,
                           ingredients |->
                               [k \in 1..Len(order) |-> order[k].ingredient_id],
                           amount_ingredients |->
                               [k \in 1..Len(order) |-> order[k].amount],
                           date_made |-> date_text(batch_record.date_made),
                           amount_made |-> batch_record.amount_made], d)

(* get_batch statement by statement: the SELECT FROM batches, answered 404  *)
(* at once when it finds no row, and otherwise kept for the second step     *)
get_batch_record(id, d) ==
    LET rows == {b \in d.batches : b.id = id}
    IN  IF rows = {}
        THEN [found |-> FALSE,
              response |-> Response(404, ErrorBody("Batch not found"), d)]
        ELSE [found |-> TRUE, batch_record |-> CHOOSE b \in rows : TRUE]

(* the SELECT FROM batch_ingredients, run by itself on the pool after the   *)
(* first SELECT returned batch_record, and the Batch built from the two     *)
get_batch_ingredients(batch_record, order, d) ==
    get_batch(batch_record.id, order, [d EXCEPT !.batches = {batch_record}], 0)

(* the ids of S in descending order: ORDER BY id DESC                        *)
Desc(S) ==
    CHOOSE s \in Orders(S) : \A i, j \in 1..Cardinality(S) : i < j => s[i] > s[j]

(* the queries of a list handler that succeed: entry k of the primary        *)
(* SELECT is read by storage call k + 1                                      *)
Fetched(ids, fail) ==
    SelectSeq([k \in 1..Len(ids) |-> [call |-> k + 1, id |-> ids[k]]],
              LAMBDA e : e.call # fail)

(* fail: 1 the SELECT FROM batches, k + 1 the SELECT FROM batch_ingredients  *)
(* of the k-th batch; orders: for each batch, the rows of batch_ingredients  *)
(* as its SELECT returns them. A batch whose SELECT fails is skipped.        *)
get_all_batches(orders, d, fail) ==
    IF fail = 1
    THEN Response(500, ErrorBody("Internal server error"), d)
    ELSE LET fetched == Fetched(Desc({b.id : b \in d.batches}), fail)
         IN  Response(200,
                 [list |->
                     [k \in 1..Len(fetched) |->
                         LET record == CHOOSE b \in d.batches : b.id = fetched[k].id
                             order == orders[record.id]
                         IN  [id |-> record.id, org_id |-> record.org_id,
                              employee |-> record.employee,
                              recipe_lotcode |-> record.recipe_lotcode,
                              batch_lot_code |-> record.batch_lot_code,
                              ingredients |->
                                  [i \in 1..Len(order) |-> order[i].ingredient_id],
                              amount_ingredients |->
                                  [i \in 1..Len(order) |-> order[i].amount],
                              date_made |-> date_text(record.date_made),
                              amount_made |-> record.amount_made]]], d)

(* an update that writes the association rows of the request and commits    *)
(* whether or not the UPDATE found the batch                                *)
update_batch_committing_missing(id, batch, d, fail) ==
    IF ~parse_date(batch.date_made).ok
    THEN Response(400, ErrorBody("Invalid date format. Use YYYY-MM-DD"), d)
    ELSE IF Len(batch.ingredients) # Len(batch.amount_ingredients)
    THEN Response(400, ErrorBody("Ingredients and amounts must have the same length"), d)
    ELSE IF fail # 0 \/ ~OrgExists(d, batch.org_id) \/ ~LinksAccepted(d, batch.ingredients)
    THEN TxResponse(500, ErrorBody("Internal server error"), d, "rolled back")
    ELSE LET written ==
                 [d EXCEPT
                     !.batches =
                         {IF b.id = id
                          THEN [b EXCEPT !.org_id = batch.org_id,
                                         !.employee = batch.employee,
                                         !.recipe_lotcode = batch.recipe_lotcode,
                                         !.batch_lot_code = batch.batch_lot_code,
                                         !.date_made = parse_date(batch.date_made).date,
                                         !.amount_made = batch.amount_made]
                          ELSE b : b \in @},
                     !.batch_ingredients =
                         {l \in @ : l.batch_id # id}
                             \cup BatchLinks(id, batch.ingredients,
                                             batch.amount_ingredients)]
         IN  IF ~\E b \in d.batches : b.id = id
             THEN TxResponse(404, ErrorBody("Batch not found"), written, "committed")
             ELSE TxResponse(200, BatchBody(id, batch), written, "committed")

(* fail: 1 begin, 2 the UPDATE, 3 the DELETE FROM batch_ingredients, 4 an     *)
(* INSERT INTO batch_ingredients, 5 commit                                   *)
update_batch(id, batch, d, fail) ==
    IF ~parse_date(batch.date_made).ok
    THEN Response(400, ErrorBody("Invalid date format. Use YYYY-MM-DD"), d)
    ELSE IF Len(batch.ingredients) # Len(batch.amount_ingredients)
    THEN Response(400, ErrorBody("Ingredients and amounts must have the same length"), d)
    ELSE IF fail = 1
    THEN TxResponse(500, ErrorBody("Internal server error"), d, "begin failed")
    ELSE IF fail = 2
    THEN TxResponse(500, ErrorBody("Internal server error"), d, "rolled back")
    ELSE IF ~\E b \in d.batches : b.id = id
    THEN TxResponse(404, ErrorBody("Batch not found"), d, "rolled back")
    ELSE IF ~OrgExists(d, batch.org_id)
    THEN TxResponse(500, ErrorBody("Internal server error"), d, "rolled back")
    ELSE IF fail = 3
    THEN TxResponse(500, ErrorBody("Failed to update batch"), d, "rolled back")
    ELSE IF (fail = 4 /\ batch.ingredients # <<>>) \/ ~LinksAccepted(d, batch.ingredients)
    THEN TxResponse(500, ErrorBody("Failed to update batch"), d, "rolled back")
    ELSE IF fail = 5
    THEN TxResponse(500, ErrorBody("Internal server error"), d, "commit failed")
    ELSE TxResponse(200, BatchBody(id, batch),
                    [d EXCEPT
                        !.batches =
                            {IF b.id = id
                             THEN [b EXCEPT !.org_id = batch.org_id,
                                            !.employee = batch.employee,
                                            !.recipe_lotcode = batch.recipe_lotcode,
                                            !.batch_lot_code = batch.batch_lot_code,
                                            !.date_made = parse_date(batch.date_made).date,
                                            !.amount_made = batch.amount_made]
                             ELSE b : b \in @},
                        !.batch_ingredients =
                            {l \in @ : l.batch_id # id}
                                \cup BatchLinks(id, batch.ingredients,
                                                batch.amount_ingredients)],
                    "committed")

(* a delete that commits the removal of the primary row alone *)
delete_batch_keeping_links(id, d, fail) ==
    IF fail # 0
    THEN TxResponse(500, ErrorBody("Internal server error"), d, "rolled back")
    ELSE IF ~\E b \in d.batches : b.id = id
    THEN TxResponse(404, ErrorBody("Batch not found"), d, "rolled back")
    ELSE TxResponse(204, Nil, [d EXCEPT !.batches = {b \in @ : b.id # id}], "committed")

(* fail: 1 begin, 2 the DELETE FROM batch_ingredients, 3 the DELETE FROM     *)
(* batches, 4 commit                                                         *)
delete_batch(id, d, fail) ==
    IF fail = 1
    THEN TxResponse(500, ErrorBody("Internal server error"), d, "begin failed")
    ELSE IF fail = 2
    THEN TxResponse(500, ErrorBody("Failed to delete batch"), d, "rolled back")
    ELSE IF fail = 3
    THEN TxResponse(500, ErrorBody("Internal server error"), d, "rolled back")
    ELSE IF ~\E b \in d.batches : b.id = id
    THEN TxResponse(404, ErrorBody("Batch not found"), d, "rolled back")
    ELSE IF fail = 4
    THEN TxResponse(500, ErrorBody("Internal server error"), d, "commit failed")
    ELSE TxResponse(204, Nil,
                    [d EXCEPT !.batches = {b \in @ : b.id # id},
                              !.batch_ingredients = {l \in @ : l.batch_id # id}],
                    "committed")

----------------------------------------------------------------------------
(* main.rs: problem logs *)

(* an Option<String>: <<>> is None, <<s>> is Some(s) *)
None == <<>>

Some(s) == <<s>>

ProblemLogLinks(problem_log_id, assigned_to) ==
    {[problem_log_id |-> problem_log_id, employee_id |-> assigned_to[k]]
        : k \in 1..Len(assigned_to)}

(* whether every INSERT INTO problem_logs_employees of the list is accepted *)
AssignmentsAccepted(d, assigned_to) ==
    /\ \A k \in 1..Len(assigned_to) : \E e \in d.employees : e.id = assigned_to[k]
    /\ \A j, k \in 1..Len(assigned_to) : assigned_to[j] = assigned_to[k] => j = k

ProblemLogBody(id, problem_log) ==
    [id |-> id, is_open |-> problem_log.is_open, date_opened |-> problem_log.date_opened,
     customer_name |-> problem_log.customer_name,
     problem_type |-> problem_log.problem_type, assigned_to |-> problem_log.assigned_to,
     problem_description |-> problem_log.problem_description,
     recall |-> problem_log.recall, date_resolved |-> problem_log.date_resolved]

(* the dates of a problem log parse: date_opened, and date_resolved if present *)
ProblemLogDatesError(problem_log) ==
    IF ~parse_date(problem_log.date_opened).ok
    THEN "Invalid date_opened format. Use YYYY-MM-DD"
    ELSE IF problem_log.date_resolved # None
            /\ ~parse_date(problem_log.date_resolved[1]).ok
    THEN "Invalid date_resolved format. Use YYYY-MM-DD"
    ELSE ""

ProblemLogRow(id, problem_log) ==
    [id |-> id, is_open |-> problem_log.is_open,
     date_opened |-> parse_date(problem_log.date_opened).date,
     customer_name |-> problem_log.customer_name,
     problem_type |-> problem_log.problem_type,
     problem_description |-> problem_log.problem_description,
     recall |-> problem_log.recall,
     date_resolved |->
         IF problem_log.date_resolved = None
         THEN None
         ELSE Some(parse_date(problem_log.date_resolved[1]).date)]

(* fail: 1 begin, 2 the INSERT INTO problem_logs, 3 an INSERT INTO           *)
(* problem_logs_employees, 4 commit                                          *)
create_problem_log(problem_log, d, fail) ==
    IF ProblemLogDatesError(problem_log) # ""
    THEN Response(400, ErrorBody(ProblemLogDatesError(problem_log)), d)
    ELSE IF fail = 1
    THEN TxResponse(500, ErrorBody("Internal server error"), d, "begin failed")
    ELSE IF fail = 2
    THEN TxResponse(500, ErrorBody("Failed to create problem log"), d, "rolled back")
    ELSE IF (fail = 3 /\ problem_log.assigned_to # <<>>)
            \/ ~AssignmentsAccepted(d, problem_log.assigned_to)
    THEN TxResponse(500, ErrorBody("Failed to create problem log"), d, "rolled back")
    ELSE IF fail = 4
    THEN TxResponse(500, ErrorBody("Internal server error"), d, "commit failed")
    ELSE LET problem_log_id == NextId(d, "problem_logs")
         IN  TxResponse(201, ProblemLogBody(problem_log_id, problem_log),
                        [d EXCEPT
                            !.problem_logs =
                                @ \cup {ProblemLogRow(problem_log_id, problem_log)},
                            !.problem_logs_employees =
                                @ \cup ProblemLogLinks(problem_log_id,
                                                       problem_log.assigned_to),
                            !.seq["problem_logs"] = problem_log_id],
                        "committed")

AssignedEmployeeIds(d, problem_log_id) ==
    {l.employee_id
        : l \in {x \in d.problem_logs_employees : x.problem_log_id = problem_log_id}}

(* fail: 1 the SELECT FROM problem_logs, 2 the SELECT FROM                   *)
(* problem_logs_employees; order: the employee ids as the second SELECT      *)
(* returns them                                                              *)
get_problem_log(id, order, d, fail) ==
    IF fail = 1
    THEN Response(500, ErrorBody("Internal server error"), d)
    ELSE LET rows == {p \in d.problem_logs : p.id = id}
         IN  IF rows = {}
             THEN Response(404, ErrorBody("Problem log not found"), d)
             ELSE IF fail = 2
             THEN Response(500, ErrorBody("Internal server error"), d)
             ELSE LET record == CHOOSE p \in rows : TRUE
                  IN  Response(200,
                          [id |-> record.id, is_open |-> record.is_open,
                           date_opened |-> date_text(record.date_opened),
                           customer_name |-> record.customer_name,
                           problem_type |-> record.problem_type,
                           assigned_to |-> order,
                           problem_description |-> record.problem_description,
                           recall |-> record.recall,
                           date_resolved |->
                               IF record.date_resolved = None
                               THEN None
                               ELSE Some(date_text(record.date_resolved[1]))], d)

(* fail: 1 the SELECT FROM problem_logs, k + 1 the SELECT FROM               *)
(* problem_logs_employees of the k-th problem log; orders: for each problem  *)
(* log, the employee ids as its SELECT returns them. A problem log whose     *)
(* SELECT fails is skipped.                                                  *)
get_all_problem_logs(orders, d, fail) ==
    IF fail = 1
    THEN Response(500, ErrorBody("Internal server error"), d)
    ELSE LET fetched == Fetched(Desc({p.id : p \in d.problem_logs}), fail)
         IN  Response(200,
                 [list |->
                     [k \in 1..Len(fetched) |->
                         LET record == CHOOSE p \in d.problem_logs : p.id = fetched[k].id
                         IN  [id |-> record.id, is_open |-> record.is_open,
                              date_opened |-> date_text(record.date_opened),
                              customer_name |-> record.customer_name,
                              problem_type |-> record.problem_type,
                              assigned_to |-> orders[record.id],
                              problem_description |-> record.problem_description,
                              recall |-> record.recall,
                              date_resolved |->
                                  IF record.date_resolved = None
                                  THEN None
                                  ELSE Some(date_text(record.date_resolved[1]))]]], d)

(* fail: 1 begin, 2 the UPDATE, 3 the DELETE FROM problem_logs_employees, 4  *)
(* an INSERT INTO problem_logs_employees, 5 commit                           *)
update_problem_log(id, problem_log, d, fail) ==
    IF ProblemLogDatesError(problem_log) # ""
    THEN Response(400, ErrorBody(ProblemLogDatesError(problem_log)), d)
    ELSE IF fail = 1
    THEN TxResponse(500, ErrorBody("Internal server error"), d, "begin failed")
    ELSE IF fail = 2
    THEN TxResponse(500, ErrorBody("Internal server error"), d, "rolled back")
    ELSE IF ~\E p \in d.problem_logs : p.id = id
    THEN TxResponse(404, ErrorBody("Problem log not found"), d, "rolled back")
    ELSE IF fail = 3
    THEN TxResponse(500, ErrorBody("Failed to update problem log"), d, "rolled back")
    ELSE IF (fail = 4 /\ problem_log.assigned_to # <<>>)
            \/ ~AssignmentsAccepted(d, problem_log.assigned_to)
    THEN TxResponse(500, ErrorBody("Failed to update problem log"), d, "rolled back")
    ELSE IF fail = 5
    THEN TxResponse(500, ErrorBody("Internal server error"), d, "commit failed")
    ELSE TxResponse(200, ProblemLogBody(id, problem_log),
                    [d EXCEPT
                        !.problem_logs =
                            {IF p.id = id THEN ProblemLogRow(id, problem_log) ELSE p
                                : p \in @},
                        !.problem_logs_employees =
                            {l \in @ : l.problem_log_id # id}
                                \cup ProblemLogLinks(id, problem_log.assigned_to)],
                    "committed")

(* fail: 1 begin, 2 the DELETE FROM problem_logs_employees, 3 the DELETE     *)
(* FROM problem_logs, 4 commit                                               *)
delete_problem_log(id, d, fail) ==
    IF fail = 1
    THEN TxResponse(500, ErrorBody("Internal server error"), d, "begin failed")
    ELSE IF fail = 2
    THEN TxResponse(500, ErrorBody("Failed to delete problem log"), d, "rolled back")
    ELSE IF fail = 3
    THEN TxResponse(500, ErrorBody("Internal server error"), d, "rolled back")
    ELSE IF ~\E p \in d.problem_logs : p.id = id
    THEN TxResponse(404, ErrorBody("Problem log not found"), d, "rolled back")
    ELSE IF fail = 4
    THEN TxResponse(500, ErrorBody("Internal server error"), d, "commit failed")
    ELSE TxResponse(204, Nil,
                    [d EXCEPT !.problem_logs = {p \in @ : p.id # id},
                              !.problem_logs_employees =
                                  {l \in @ : l.problem_log_id # id}],
                    "committed")

----------------------------------------------------------------------------
(* Requests *)

(* fail: the storage call of the request that fails, 0 if none does *)
Request(op, header, id, payload, fail) ==
    [op |-> op, header |-> header, id |-> id, payload |-> payload, fail |-> fail]

(* what the last request was and how it was answered *)
Served(req, resp) ==
    [op |-> req.op, header |-> req.header, id |-> req.id, payload |-> req.payload,
     fail |-> req.fail, status |-> resp.status, body |-> resp.body, tx |-> resp.tx]

Serve(req, resp) ==
    /\ db' = resp.db
    /\ last' = Served(req, resp)
    /\ UNCHANGED <<now, inflight>>

(* the clients whose requests are served at the same time; a request that   *)
(* is between two of its storage calls is in flight                         *)
Clients == 1..MaxClients

Idle == [pc |-> "idle"]

(* the token strings a client can present: those issued, and a forged one *)
IssuedTokens(d) == {r.token : r \in d.access_tokens}

Headers(d) ==
    {NoHeader, Basic(ForgedToken)}
        \cup {Bearer(t) : t \in IssuedTokens(d) \cup {ForgedToken}}

Lists(S, n) == UNION {[1..k -> S] : k \in 0..n}

OrgIds == 1..MaxOrgs

EmployeeIds == 1..MaxEmployees

IngredientIds == 1..MaxIngredients

RecipeIds == 1..MaxRecipes

BatchIds == 1..MaxBatches

LogIds == 1..MaxLogs

(* one amounts array of each length, its members all different *)
(* association lists: empty, of one id, of two ids *)
IdLists == {<<>>, <<1>>, <<1, 2>>}

AmountLists == {<<>>, <<10>>, <<20, 10>>}

Init ==
    /\ db = EmptyDb
    /\ now = 0
    /\ last = Served(Request("start", NoHeader, 0, Nil, 0), Response(0, Nil, EmptyDb))
    /\ inflight = [c \in Clients |-> Idle]

(* a day passes *)
Tick ==
    /\ now < MaxTime
    /\ now' = now + 1
    /\ last' = Served(Request("tick", NoHeader, 0, Nil, 0), Response(0, Nil, db))
    /\ UNCHANGED <<db, inflight>>

----------------------------------------------------------------------------
(* The authentication endpoints and the tenant resolver *)

Register(emails, fails) ==
    \E email \in emails, salt \in Salts, fail \in fails :
        /\ db.seq["organizations"] < MaxOrgs
        /\ db.seq["access_tokens"] < MaxTokens
        /\ now + TokenLifetime <= MaxTime
        /\ LET payload == [name |-> "n1", email |-> email, password |-> "pw1"]
           IN  Serve(Request("register", NoHeader, 0, payload, fail),
                     register_organization(payload, salt, db, now, fail))

Login(fails) ==
    \E email \in Emails, password \in Passwords, fail \in fails :
        \E record \in LoginRecords(db, email) :
            /\ db.seq["access_tokens"] < MaxTokens
            /\ now + TokenLifetime <= MaxTime
            /\ LET payload == [email |-> email, password |-> password]
               IN  Serve(Request("login", NoHeader, 0, payload, fail),
                         login_organization(payload, record, db, now, fail))

Logout(fails) ==
    \E header \in Headers(db), fail \in fails :
        Serve(Request("logout", header, 0, Nil, fail),
              logout_organization(header, db, fail))

(* the tenant resolver run on a request *)
VerifyAuth(fails) ==
    \E header \in Headers(db), fail \in fails :
        LET result == verify_auth(header, db, now, fail)
        IN  Serve(Request("verify_auth", header, 0, Nil, fail),
                  Response(IF result.ok THEN 200 ELSE 401, result, db))

----------------------------------------------------------------------------
(* The entity endpoints.  hs: the Authorization headers the requests carry;  *)
(* the other parameters are the sets the payloads and the failing storage    *)
(* calls are drawn from.                                                     *)

HealthCheck(hs, fails) ==
    \E header \in hs, fail \in fails :
        Serve(Request("health_check", header, 0, Nil, fail), health_check(db, fail))

CreateOrganization(hs, names, emails, fails) ==
    \E header \in hs, name \in names, email \in emails, fail \in fails :
        /\ db.seq["organizations"] < MaxOrgs
        /\ LET org == [name |-> name, email |-> email]
           IN  Serve(Request("create_organization", header, 0, org, fail),
                     create_organization(org, db, fail))

GetOrganization(hs, fails) ==
    \E header \in hs, id \in OrgIds, fail \in fails :
        Serve(Request("get_organization", header, id, Nil, fail),
              get_organization(id, db, fail))

GetAllOrganizations(hs, fails) ==
    \E header \in hs, fail \in fails :
        Serve(Request("get_all_organizations", header, 0, Nil, fail),
              get_all_organizations(db, fail))

UpdateOrganization(hs, names, emails, fails) ==
    \E header \in hs, id \in OrgIds, name \in names, email \in emails, fail \in fails :
        LET org == [name |-> name, email |-> email]
        IN  Serve(Request("update_organization", header, id, org, fail),
                  update_organization(id, org, db, fail))

DeleteOrganization(hs, fails) ==
    \E header \in hs, id \in OrgIds, fail \in fails :
        Serve(Request("delete_organization", header, id, Nil, fail),
              delete_organization(id, db, fail))

CreateEmployee(hs, org_ids, fails) ==
    \E header \in hs, org_id \in org_ids, fail \in fails :
        /\ db.seq["employees"] < MaxEmployees
        /\ LET employee == [name |-> "n1", role |-> "r1", org_id |-> org_id]
           IN  Serve(Request("create_employee", header, 0, employee, fail),
                     create_employee(employee, db, fail))

GetEmployee(hs, fails) ==
    \E header \in hs, id \in EmployeeIds, fail \in fails :
        Serve(Request("get_employee", header, id, Nil, fail), get_employee(id, db, fail))

GetAllEmployees(hs, fails) ==
    \E header \in hs, fail \in fails :
        Serve(Request("get_all_employees", header, 0, Nil, fail),
              get_all_employees(db, fail))

UpdateEmployee(hs, names, org_ids, fails) ==
    \E header \in hs, id \in EmployeeIds, name \in names, org_id \in org_ids,
       fail \in fails :
        LET employee == [name |-> name, role |-> "r1", org_id |-> org_id]
        IN  Serve(Request("update_employee", header, id, employee, fail),
                  update_employee(id, employee, db, fail))

DeleteEmployee(hs, fails) ==
    \E header \in hs, id \in EmployeeIds, fail \in fails :
        Serve(Request("delete_employee", header, id, Nil, fail), delete_employee(id, db, fail))

CreateIngredient(hs, dates, org_ids, fails) ==
    \E header \in hs, date \in dates, org_id \in org_ids, fail \in fails :
        /\ db.seq["ingredients"] < MaxIngredients
        /\ LET ingredient == [lotcode |-> "L1", name |-> "n1", date |-> date,
                              org_id |-> org_id]
           IN  Serve(Request("create_ingredient", header, 0, ingredient, fail),
                     create_ingredient(ingredient, db, fail))

UpdateIngredient(hs, dates, org_ids, fails) ==
    \E header \in hs, id \in IngredientIds, date \in dates, org_id \in org_ids,
       fail \in fails :
        LET ingredient == [lotcode |-> "L1", name |-> "n1", date |-> date,
                           org_id |-> org_id]
        IN  Serve(Request("update_ingredient", header, id, ingredient, fail),
                  update_ingredient(id, ingredient, db, fail))

DeleteIngredient(hs, fails) ==
    \E header \in hs, id \in IngredientIds, fail \in fails :
        Serve(Request("delete_ingredient", header, id, Nil, fail),
              delete_ingredient(id, db, fail))

RecipeInput(name, date, org_id, ingredients) ==
    [lotcode |-> "L1", name |-> name, date_made |-> date, org_id |-> org_id,
     ingredients |-> ingredients, description |-> "d1"]

CreateRecipe(hs, dates, org_ids, lists, fails) ==
    \E header \in hs, date \in dates, org_id \in org_ids, ingredients \in lists,
       fail \in fails :
        /\ db.seq["recipes"] < MaxRecipes
        /\ LET recipe == RecipeInput("n1", date, org_id, ingredients)
           IN  Serve(Request("create_recipe", header, 0, recipe, fail),
                     create_recipe(recipe, db, fail))

GetRecipe(hs, fails) ==
    \E header \in hs, id \in RecipeIds, fail \in fails :
        \E order \in Orders(RecipeIngredientIds(db, id)) :
            Serve(Request("get_recipe", header, id, Nil, fail),
                  get_recipe(id, order, db, fail))

GetAllRecipes(hs, fails) ==
    \E header \in hs, fail \in fails :
        Serve(Request("get_all_recipes", header, 0, Nil, fail), get_all_recipes(db, fail))

UpdateRecipe(hs, names, dates, org_ids, lists, fails) ==
    \E header \in hs, id \in RecipeIds, name \in names, date \in dates,
       org_id \in org_ids, ingredients \in lists, fail \in fails :
        LET recipe == RecipeInput(name, date, org_id, ingredients)
        IN  Serve(Request("update_recipe", header, id, recipe, fail),
                  update_recipe(id, recipe, db, fail))

DeleteRecipe(hs, fails) ==
    \E header \in hs, id \in RecipeIds, fail \in fails :
        Serve(Request("delete_recipe", header, id, Nil, fail), delete_recipe(id, db, fail))

BatchInput(employee, date, org_id, ingredients, amount_ingredients) ==
    [org_id |-> org_id, employee |-> employee, recipe_lotcode |-> "L1",
     batch_lot_code |-> "B1", ingredients |-> ingredients,
     amount_ingredients |-> amount_ingredients, date_made |-> date,
     amount_made |-> "5 kg"]

CreateBatch(hs, dates, org_ids, lists, amounts, fails) ==
    \E header \in hs, date \in dates, org_id \in org_ids, ingredients \in lists,
       amount_ingredients \in amounts, fail \in fails :
        /\ db.seq["batches"] < MaxBatches
        /\ LET batch == BatchInput("n1", date, org_id, ingredients, amount_ingredients)
           IN  Serve(Request("create_batch", header, 0, batch, fail),
                     create_batch(batch, db, fail))

GetBatch(hs, fails) ==
    \E header \in hs, id \in BatchIds, fail \in fails :
        \E order \in Orders(BatchRows(db, id)) :
            Serve(Request("get_batch", header, id, Nil, fail), get_batch(id, order, db, fail))

(* for each id, one of the orders in which its association rows, rows[id], *)
(* can be read                                                              *)
RowOrders(rows) ==
    {f \in [DOMAIN rows -> UNION {Orders(rows[i]) : i \in DOMAIN rows}] :
        \A i \in DOMAIN rows : f[i] \in Orders(rows[i])}

GetAllBatches(hs, fails) ==
    \E header \in hs, fail \in fails :
        \E orders \in RowOrders([i \in {b.id : b \in db.batches} |-> BatchRows(db, i)]) :
            Serve(Request("get_all_batches", header, 0, Nil, fail),
                  get_all_batches(orders, db, fail))

(* an update_batch that replaces the association rows before it touches the *)
(* row of batches                                                           *)
update_batch_links_first == <<"delete", "insert", "update", "commit">>

(* the statements update_batch runs on its transaction, in order: the       *)
(* UPDATE of batches, the DELETE FROM batch_ingredients, the INSERTs INTO    *)
(* batch_ingredients, the commit                                            *)
update_batch_statements == <<"update", "delete", "insert", "commit">>

(* the other clients whose update of batch id is between begin and commit   *)
OtherUpdaters(c, id) ==
    {o \in Clients \ {c} : /\ inflight[o].pc \in {"update_batch", "delete_batch"}
                           /\ inflight[o].id = id}

Statement(c, name) ==
    /\ inflight[c].pc = "update_batch"
    /\ update_batch_statements[inflight[c].at] = name

(* the request of client c is answered and its transaction is over *)
Answer(c, resp) ==
    /\ last' = Served(Request(inflight[c].pc, NoHeader, inflight[c].id,
                              inflight[c].batch, 0), resp)
    /\ inflight' = [inflight EXCEPT ![c] =
                       [pc |-> "answered", id |-> inflight[c].id,
                        batch |-> inflight[c].batch, status |-> resp.status,
                        with |-> inflight[c].with]]
    /\ db' = resp.db
    /\ UNCHANGED now

(* the date and the lengths are checked, then the transaction is begun; the *)
(* updates of the same batch that are in flight run concurrently with it    *)
BeginUpdateBatch(names, lists, amounts) ==
    \E c \in Clients, id \in BatchIds, name \in names, ingredients \in lists,
       amount_ingredients \in amounts :
        LET batch == BatchInput(name, ValidDate, 1, ingredients, amount_ingredients)
        IN  /\ inflight[c] = Idle
            /\ parse_date(batch.date_made).ok
            /\ Len(batch.ingredients) = Len(batch.amount_ingredients)
            /\ inflight' =
                   [o \in Clients |->
                       IF o = c
                       THEN [pc |-> "update_batch", id |-> id, batch |-> batch, at |-> 1,
                             locked |-> FALSE, deleted |-> {}, inserted |-> {},
                             with |-> OtherUpdaters(c, id)]
                       ELSE IF o \in OtherUpdaters(c, id)
                       THEN [inflight[o] EXCEPT !.with = @ \cup {c}]
                       ELSE inflight[o]]
            /\ UNCHANGED <<db, now, last>>

(* UPDATE batches ... WHERE id = $7 RETURNING id: waits while another        *)
(* transaction holds the lock of the row, then locks it                     *)
UpdateBatchRow ==
    \E c \in Clients :
        /\ Statement(c, "update")
        /\ \A o \in OtherUpdaters(c, inflight[c].id) : ~inflight[o].locked
        /\ IF ~\E b \in db.batches : b.id = inflight[c].id
           THEN Answer(c, TxResponse(404, ErrorBody("Batch not found"), db, "rolled back"))
           ELSE IF ~OrgExists(db, inflight[c].batch.org_id)
           THEN Answer(c, TxResponse(500, ErrorBody("Internal server error"), db,
                                     "rolled back"))
           ELSE /\ inflight' = [inflight EXCEPT ![c].locked = TRUE, ![c].at = @ + 1]
                /\ UNCHANGED <<db, now, last>>

(* DELETE FROM batch_ingredients WHERE batch_id = $1: deletes the committed *)
(* rows it sees, and waits while another transaction has deleted one of     *)
(* them                                                                     *)
DeleteBatchLinks ==
    \E c \in Clients :
        /\ Statement(c, "delete")
        /\ \A o \in OtherUpdaters(c, inflight[c].id) :
               inflight[o].deleted \cap BatchRows(db, inflight[c].id) = {}
        /\ inflight' = [inflight EXCEPT ![c].deleted = BatchRows(db, inflight[c].id),
                                        ![c].at = @ + 1]
        /\ UNCHANGED <<db, now, last>>

(* the INSERTs INTO batch_ingredients: wait while another transaction has   *)
(* inserted a row of the same key, fail on a key that is committed and not  *)
(* deleted by this transaction or on an ingredient that does not exist      *)
InsertBatchLinks ==
    \E c \in Clients :
        LET id == inflight[c].id
            batch == inflight[c].batch
            kept == BatchRows(db, id) \ inflight[c].deleted
        IN  /\ Statement(c, "insert")
            /\ \A o \in OtherUpdaters(c, id) :
                   {l.ingredient_id : l \in inflight[o].inserted}
                       \cap Range(batch.ingredients) = {}
            /\ IF \/ ~LinksAccepted(db, batch.ingredients)
                  \/ {l.ingredient_id : l \in kept} \cap Range(batch.ingredients) # {}
               THEN Answer(c, TxResponse(500, ErrorBody("Failed to update batch"), db,
                                         "rolled back"))
               ELSE /\ inflight' =
                          [inflight EXCEPT
                              ![c].inserted = BatchLinks(id, batch.ingredients,
                                                         batch.amount_ingredients),
                              ![c].at = @ + 1]
                    /\ UNCHANGED <<db, now, last>>

(* tx.commit(): what the transaction wrote becomes the committed store *)
CommitUpdateBatch ==
    \E c \in Clients :
        LET id == inflight[c].id
            batch == inflight[c].batch
        IN  /\ Statement(c, "commit")
            /\ Answer(c, TxResponse(200, BatchBody(id, batch),
                   [db EXCEPT
                       !.batches =
                           {IF b.id = id /\ inflight[c].locked
                            THEN [b EXCEPT !.org_id = batch.org_id,
                                           !.employee = batch.employee,
                                           !.recipe_lotcode = batch.recipe_lotcode,
                                           !.batch_lot_code = batch.batch_lot_code,
                                           !.date_made = parse_date(batch.date_made).date,
                                           !.amount_made = batch.amount_made]
                            ELSE b : b \in @},
                       !.batch_ingredients =
                           (@ \ inflight[c].deleted) \cup inflight[c].inserted],
                   "committed"))

(* delete_batch, statement by statement: the transaction is begun *)
BeginDeleteBatch ==
    \E c \in Clients, id \in BatchIds :
        /\ inflight[c] = Idle
        /\ inflight' =
               [o \in Clients |->
                   IF o = c
                   THEN [pc |-> "delete_batch", id |-> id, batch |-> Nil, at |-> 1,
                         locked |-> FALSE, deleted |-> {}, inserted |-> {},
                         with |-> OtherUpdaters(c, id)]
                   ELSE IF o \in OtherUpdaters(c, id)
                   THEN [inflight[o] EXCEPT !.with = @ \cup {c}]
                   ELSE inflight[o]]
        /\ UNCHANGED <<db, now, last>>

(* DELETE FROM batch_ingredients WHERE batch_id = $1 of delete_batch: as the *)
(* one of update_batch                                                      *)
DeleteLinksOfBatch ==
    \E c \in Clients :
        /\ inflight[c].pc = "delete_batch" /\ inflight[c].at = 1
        /\ \A o \in OtherUpdaters(c, inflight[c].id) :
               inflight[o].deleted \cap BatchRows(db, inflight[c].id) = {}
        /\ inflight' = [inflight EXCEPT ![c].deleted = BatchRows(db, inflight[c].id),
                                        ![c].at = 2]
        /\ UNCHANGED <<db, now, last>>

(* DELETE FROM batches WHERE id = $1 RETURNING id: waits while another       *)
(* transaction holds the lock of the row; no row is 404 after a rollback.    *)
(* Rows of batch_ingredients committed since the first DELETE reference the  *)
(* batch: the store removes them with it or refuses the DELETE, as the       *)
(* foreign key of the schema says                                            *)
DeleteBatchRow ==
    \E c \in Clients, cascades \in BOOLEAN :
        LET id == inflight[c].id
            kept == BatchRows(db, id) \ inflight[c].deleted
        IN  /\ inflight[c].pc = "delete_batch" /\ inflight[c].at = 2
            /\ \A o \in OtherUpdaters(c, id) : ~inflight[o].locked
            /\ IF ~\E b \in db.batches : b.id = id
               THEN Answer(c, TxResponse(404, ErrorBody("Batch not found"), db,
                                         "rolled back"))
               ELSE IF kept # {} /\ ~cascades
               THEN Answer(c, TxResponse(500, ErrorBody("Internal server error"), db,
                                         "rolled back"))
               ELSE /\ inflight' = [inflight EXCEPT ![c].locked = TRUE,
                                                    ![c].deleted = @ \cup kept,
                                                    ![c].at = 3]
                    /\ UNCHANGED <<db, now, last>>

(* tx.commit() of delete_batch *)
CommitDeleteBatch ==
    \E c \in Clients :
        /\ inflight[c].pc = "delete_batch" /\ inflight[c].at = 3
        /\ Answer(c, TxResponse(204, Nil,
               [db EXCEPT !.batches = {b \in @ : b.id # inflight[c].id},
                          !.batch_ingredients = @ \ inflight[c].deleted],
               "committed"))

(* a statement of a transaction in flight is answered with an error, as     *)
(* when the store ends a wait of two transactions for each other: the        *)
(* handler rolls back and answers 500                                       *)
StatementFailed ==
    \E c \in Clients :
        /\ inflight[c].pc \in {"update_batch", "delete_batch"}
        /\ Answer(c, TxResponse(500, ErrorBody("Internal server error"), db,
                                 "rolled back"))

(* delete_ingredient while transactions are in flight: the DELETE waits      *)
(* while a transaction has inserted a row that references the ingredient    *)
DeleteIngredientInTurn ==
    \E id \in IngredientIds :
        /\ \A c \in Clients :
               inflight[c].pc \in {"update_batch", "delete_batch"}
                   => id \notin {l.ingredient_id : l \in inflight[c].inserted}
        /\ Serve(Request("delete_ingredient", NoHeader, id, Nil, 0),
                 delete_ingredient(id, db, 0))

(* a get of a batch whose two SELECTs are separate steps: other requests    *)
(* can commit between them                                                  *)
GetBatchRecord ==
    \E c \in Clients, id \in BatchIds :
        /\ inflight[c] = Idle
        /\ LET first == get_batch_record(id, db)
           IN  IF first.found
               THEN /\ inflight' = [inflight EXCEPT ![c] =
                                      [pc |-> "get_batch", id |-> id,
                                       batch_record |-> first.batch_record,
                                       before |-> db]]
                    /\ UNCHANGED <<db, now, last>>
               ELSE Serve(Request("get_batch", NoHeader, id, Nil, 0), first.response)

GetBatchIngredients ==
    \E c \in Clients :
        /\ inflight[c].pc = "get_batch"
        /\ \E order \in Orders(BatchRows(db, inflight[c].id)) :
               /\ last' = Served(Request("get_batch", NoHeader, inflight[c].id, Nil, 0),
                                 get_batch_ingredients(inflight[c].batch_record, order, db))
               /\ inflight' = [inflight EXCEPT ![c] = Idle]
               /\ UNCHANGED <<db, now>>

UpdateBatch(hs, names, dates, org_ids, lists, amounts, fails) ==
    \E header \in hs, id \in BatchIds, name \in names, date \in dates,
       org_id \in org_ids, ingredients \in lists, amount_ingredients \in amounts,
       fail \in fails :
        LET batch == BatchInput(name, date, org_id, ingredients, amount_ingredients)
        IN  Serve(Request("update_batch", header, id, batch, fail),
                  update_batch(id, batch, db, fail))

DeleteBatch(hs, fails) ==
    \E header \in hs, id \in BatchIds, fail \in fails :
        Serve(Request("delete_batch", header, id, Nil, fail), delete_batch(id, db, fail))

ProblemLogInput(customer_name, date_opened, date_resolved, assigned_to) ==
    [is_open |-> TRUE, date_opened |-> date_opened, customer_name |-> customer_name,
     problem_type |-> "t1", assigned_to |-> assigned_to,
     problem_description |-> "d1", recall |-> FALSE, date_resolved |-> date_resolved]

CreateProblemLog(hs, dates, resolved, lists, fails) ==
    \E header \in hs, date_opened \in dates, date_resolved \in resolved,
       assigned_to \in lists, fail \in fails :
        /\ db.seq["problem_logs"] < MaxLogs
        /\ LET problem_log ==
                   ProblemLogInput("n1", date_opened, date_resolved, assigned_to)
           IN  Serve(Request("create_problem_log", header, 0, problem_log, fail),
                     create_problem_log(problem_log, db, fail))

GetProblemLog(hs, fails) ==
    \E header \in hs, id \in LogIds, fail \in fails :
        \E order \in Orders(AssignedEmployeeIds(db, id)) :
            Serve(Request("get_problem_log", header, id, Nil, fail),
                  get_problem_log(id, order, db, fail))

GetAllProblemLogs(hs, fails) ==
    \E header \in hs, fail \in fails :
        \E orders \in RowOrders([i \in {p.id : p \in db.problem_logs} |->
                                     AssignedEmployeeIds(db, i)]) :
            Serve(Request("get_all_problem_logs", header, 0, Nil, fail),
                  get_all_problem_logs(orders, db, fail))

UpdateProblemLog(hs, names, dates, resolved, lists, fails) ==
    \E header \in hs, id \in LogIds, name \in names, date_opened \in dates,
       date_resolved \in resolved, assigned_to \in lists, fail \in fails :
        LET problem_log == ProblemLogInput(name, date_opened, date_resolved, assigned_to)
        IN  Serve(Request("update_problem_log", header, id, problem_log, fail),
                  update_problem_log(id, problem_log, db, fail))

DeleteProblemLog(hs, fails) ==
    \E header \in hs, id \in LogIds, fail \in fails :
        Serve(Request("delete_problem_log", header, id, Nil, fail),
              delete_problem_log(id, db, fail))

(* the passwords and salts tried on the two password functions *)
PasswordTexts == Passwords \cup {"", "pw3", "s1", "argon2id"}

SaltTexts == Salts \cup {"s2", "s3"}

(* what a password_hash column can hold: a hash that hash_password made, a  *)
(* hash of another algorithm, a text that is no PHC string, nothing         *)
StoredHashes ==
    {hash_password(p, s).hash : p \in PasswordTexts, s \in SaltTexts}
        \cup {[alg |-> "bcrypt", salt |-> s, digest |-> Argon2(p, s)]
                 : p \in Passwords, s \in Salts}
        \cup {Plain(p) : p \in PasswordTexts}

HashPassword ==
    \E password \in PasswordTexts, salt \in SaltTexts :
        Serve(Request("hash_password", NoHeader, 0, [password |-> password], 0),
              Response(0, hash_password(password, salt), db))

VerifyPassword ==
    \E password \in PasswordTexts, hash \in StoredHashes :
        Serve(Request("verify_password", NoHeader, 0,
                      [password |-> password, hash |-> hash], 0),
              Response(0, verify_password(password, hash), db))

(* The connection pool.  Where each storage call of a handler runs: "begin" *)
(* is data.db_pool.begin(), "tx" a statement executed on &mut *tx, "commit" *)
(* is tx.commit(), "pool" a statement executed on &data.db_pool             *)
handler_statements(op) ==
    CASE op = "delete_recipe"      -> <<"begin", "tx", "tx", "commit">>
      [] op = "update_problem_log" -> <<"begin", "tx", "tx", "tx", "commit">>
      [] op = "get_batch"          -> <<"pool", "pool">>

(* a handler whose statements inside the transaction take their connection *)
(* from the pool                                                           *)
pool_connections_apart(kind) == IF kind = "commit" THEN 0 ELSE 1

(* the connections a storage call asks the pool for: one for begin and for  *)
(* a statement on the pool, none for a statement or commit on the           *)
(* transaction, which runs on the connection begin returned                 *)
pool_connections(kind) == IF kind \in {"begin", "pool"} THEN 1 ELSE 0

(* the connections that requests in flight hold *)
Held == {c \in Clients : inflight[c].pc = "running" /\ inflight[c].holds}

(* a request arrives; fail is the storage call that will fail, 0 for none *)
Arrive(ops) ==
    \E c \in Clients, op \in ops, fail \in 0..MaxLen + 3 :
        /\ inflight[c] = Idle
        /\ fail <= Len(handler_statements(op))
        /\ inflight' = [inflight EXCEPT ![c] =
                           [pc |-> "running", op |-> op, fail |-> fail, at |-> 1,
                            holds |-> FALSE]]
        /\ UNCHANGED <<db, now, last>>

(* the response of client c is produced: its connection, if it held one,   *)
(* went back to the pool with the commit or rollback before it             *)
Respond(c, status, tx) ==
    /\ inflight' = [inflight EXCEPT ![c] = Idle]
    /\ last' = Served(Request(inflight[c].op, NoHeader, 0, Nil, inflight[c].fail),
                      TxResponse(status, Nil, db, tx))
    /\ UNCHANGED <<db, now>>

(* the next storage call of client c: it waits until the pool has the       *)
(* connections it asks for; a failed statement on the transaction is        *)
(* followed by tx.rollback() and the error response                         *)
Step(c) ==
    /\ inflight[c].pc = "running"
    /\ LET r == inflight[c]
           kind == handler_statements(r.op)[r.at]
           final == r.at = Len(handler_statements(r.op))
       IN  /\ MaxConnections - Cardinality(Held) >= pool_connections(kind)
           /\ IF r.fail = r.at
              THEN Respond(c, 500, CASE kind = "begin" -> "begin failed"
                                     [] kind = "tx" -> "rolled back"
                                     [] kind = "commit" -> "commit failed"
                                     [] kind = "pool" -> "none")
              ELSE IF final
              THEN Respond(c, 200, IF kind = "commit" THEN "committed" ELSE "none")
              ELSE /\ inflight' = [inflight EXCEPT ![c].at = @ + 1,
                                                   ![c].holds = (kind # "pool")]
                   /\ UNCHANGED <<db, now, last>>

----------------------------------------------------------------------------
(* Specifications *)

(* how far the clock may move between the two reads of one generate_token *)
MaxSkew == 2

JwtError == [error |-> "JwtError"]

(* one run of generate_token: Utc::now() is read for exp, then again for    *)
(* iat, and the clock, which counts whole units as timestamp() counts whole *)
(* seconds, may have moved on in between; fail: 1 encode                    *)
GenerateToken(fails) ==
    \E org_id \in OrgIds, jti \in 1..MaxTokens, skew \in 0..MaxSkew, fail \in fails :
        /\ now + skew <= MaxTime
        /\ now' = now + skew
        /\ last' = Served(Request("generate_token", NoHeader, org_id, Nil, fail),
                          IF fail = 1
                          THEN Response(500, JwtError, db)
                          ELSE Response(200,
                                        generate_token(org_id, now, now + skew, jti),
                                        db))
        /\ UNCHANGED <<db, inflight>>

(* token generation under a running clock *)
NextClock ==
    \/ Tick
    \/ GenerateToken(0..1)

SpecClock == Init /\ [][NextClock]_vars

(* the token lifecycle: registration, login, logout, the tenant resolver,    *)
(* and the clock                                                             *)
NextAuth ==
    \/ Tick
    \/ Register(Emails, 0..4)
    \/ Login(0..3)
    \/ Logout(0..1)
    \/ VerifyAuth(0..1)

SpecAuth == Init /\ [][NextAuth]_vars

(* tokens issued by registration and login, and their logout *)
NextLogout ==
    \/ Register(Emails, {0})
    \/ Login({0})
    \/ Logout(0..1)

SpecLogout == Init /\ [][NextLogout]_vars

(* tokens over their whole life: issued, logged out, and kept while the     *)
(* organizations and employees around them are changed and deleted          *)
NextToken ==
    \/ Register(Emails, {0})
    \/ Login({0})
    \/ Logout({0})
    \/ UpdateOrganization({NoHeader}, {"n2"}, {"b@x"}, {0})
    \/ DeleteOrganization({NoHeader}, {0})
    \/ CreateEmployee({NoHeader}, {1}, {0})
    \/ DeleteEmployee({NoHeader}, {0})

SpecToken == Init /\ [][NextToken]_vars

(* the organization endpoints, as the tests of tests/api_test.rs call them *)
NextOrg ==
    \/ Register(Emails, {0})
    \/ CreateOrganization({NoHeader}, Names, Emails, 0..1)
    \/ GetOrganization({NoHeader}, 0..1)
    \/ GetAllOrganizations({NoHeader}, 0..1)
    \/ UpdateOrganization({NoHeader}, Names, Emails, 0..1)
    \/ DeleteOrganization({NoHeader}, 0..1)

SpecOrg == Init /\ [][NextOrg]_vars

(* two registered organizations and the requests they and strangers send to *)
(* the organization endpoints                                                *)
NextSelf ==
    \/ Register(Emails, {0})
    \/ GetOrganization(Headers(db), {0})
    \/ GetAllOrganizations(Headers(db), {0})
    \/ UpdateOrganization(Headers(db), Names, Emails, {0})
    \/ DeleteOrganization(Headers(db), {0})

SpecSelf == Init /\ [][NextSelf]_vars

(* two tenants and the requests they and strangers send to the employee and  *)
(* recipe endpoints                                                          *)
NextTenant ==
    \/ Register(Emails, {0})
    \/ CreateEmployee(Headers(db), OrgIds, {0})
    \/ GetEmployee(Headers(db), {0})
    \/ GetAllEmployees(Headers(db), {0})
    \/ UpdateEmployee(Headers(db), {"n1"}, OrgIds, {0})
    \/ DeleteEmployee(Headers(db), {0})
    \/ CreateRecipe(Headers(db), {ValidDate}, OrgIds, {<<>>}, {0})
    \/ GetRecipe(Headers(db), {0})
    \/ GetAllRecipes(Headers(db), {0})
    \/ UpdateRecipe(Headers(db), {"n1"}, {ValidDate}, OrgIds, {<<>>}, {0})
    \/ DeleteRecipe(Headers(db), {0})

SpecTenant == Init /\ [][NextTenant]_vars

(* recipes and the ingredients they reference, of two organizations; the     *)
(* storage failures are tried on one request of each kind                    *)
NextRecipe ==
    \/ CreateOrganization({NoHeader}, {"n1"}, {"a@x"}, {0})
    \/ CreateIngredient({NoHeader}, {ValidDate}, OrgIds, {0})
    \/ UpdateIngredient({NoHeader}, {ValidDate}, OrgIds, 0..1)
    \/ DeleteIngredient({NoHeader}, 0..1)
    \/ CreateRecipe({NoHeader}, Dates, OrgIds, Lists(IngredientIds, MaxLen), {0})
    \/ CreateRecipe({NoHeader}, {ValidDate}, {1}, {<<1>>}, 1..4)
    \/ GetRecipe({NoHeader}, 0..1)
    \/ GetAllRecipes({NoHeader}, 0..1)
    \/ UpdateRecipe({NoHeader}, {"n1"}, Dates, OrgIds, Lists(IngredientIds, MaxLen), {0})
    \/ UpdateRecipe({NoHeader}, {"n1"}, {ValidDate}, {1}, {<<1>>}, 1..5)
    \/ DeleteRecipe({NoHeader}, 0..4)

SpecRecipe == Init /\ [][NextRecipe]_vars

(* batches of one organization and the ingredients they reference *)
NextBatch ==
    \/ CreateOrganization({NoHeader}, {"n1"}, {"a@x"}, {0})
    \/ CreateIngredient({NoHeader}, {ValidDate}, {1}, {0})
    \/ CreateBatch({NoHeader}, Dates, {1}, Lists(IngredientIds, MaxLen), AmountLists, {0})
    \/ CreateBatch({NoHeader}, {ValidDate}, {1}, {<<1>>}, {<<10>>}, 1..4)
    \/ GetBatch({NoHeader}, 0..2)
    \/ UpdateBatch({NoHeader}, {"n1"}, Dates, {1}, Lists(IngredientIds, MaxLen),
                   AmountLists, {0})
    \/ UpdateBatch({NoHeader}, {"n1"}, {ValidDate}, {1}, {<<1>>}, {<<10>>}, 1..5)
    \/ DeleteBatch({NoHeader}, 0..4)

SpecBatch == Init /\ [][NextBatch]_vars

(* batches and problem logs of one organization, read one by one and as     *)
(* lists, with each query of a read failing in turn                          *)
NextList ==
    \/ CreateOrganization({NoHeader}, {"n1"}, {"a@x"}, {0})
    \/ CreateIngredient({NoHeader}, {ValidDate}, {1}, {0})
    \/ CreateEmployee({NoHeader}, {1}, {0})
    \/ CreateBatch({NoHeader}, {ValidDate}, {1}, Lists(IngredientIds, MaxLen),
                   AmountLists, {0})
    \/ CreateProblemLog({NoHeader}, {ValidDate}, {None}, Lists(EmployeeIds, MaxLen), {0})
    \/ GetBatch({NoHeader}, 0..2)
    \/ GetProblemLog({NoHeader}, 0..2)
    \/ GetAllBatches({NoHeader}, 0..(MaxBatches + 1))
    \/ GetAllProblemLogs({NoHeader}, 0..(MaxLogs + 1))

SpecList == Init /\ [][NextList]_vars

(* gets of a batch, statement by statement, while updates and deletes of    *)
(* the batch commit                                                         *)
NextRead ==
    \/ CreateOrganization({NoHeader}, {"n1"}, {"a@x"}, {0})
    \/ CreateIngredient({NoHeader}, {ValidDate}, {1}, {0})
    \/ CreateBatch({NoHeader}, {ValidDate}, {1}, IdLists, AmountLists, {0})
    \/ UpdateBatch({NoHeader}, {"n2"}, {ValidDate}, {1}, IdLists, AmountLists, {0})
    \/ DeleteBatch({NoHeader}, {0})
    \/ GetBatchRecord
    \/ GetBatchIngredients

SpecRead == Init /\ [][NextRead]_vars

(* updates of one batch by several clients at once, statement by statement *)
NextWrite ==
    \/ CreateOrganization({NoHeader}, {"n1"}, {"a@x"}, {0})
    \/ CreateIngredient({NoHeader}, {ValidDate}, {1}, {0})
    \/ CreateBatch({NoHeader}, {ValidDate}, {1}, {<<>>, <<1>>}, {<<>>, <<10>>}, {0})
    \/ BeginUpdateBatch({"n1", "n2"}, {<<>>, <<1>>, <<2>>}, {<<>>, <<10>>, <<20>>})
    \/ UpdateBatchRow
    \/ DeleteBatchLinks
    \/ InsertBatchLinks
    \/ CommitUpdateBatch

SpecWrite == Init /\ [][NextWrite]_vars

(* two organizations with employees, ingredients, a recipe and a batch that *)
(* reference ingredients of either, and the deletion of an organization     *)
NextCascade ==
    \/ CreateOrganization({NoHeader}, {"n1"}, Emails, {0})
    \/ CreateEmployee({NoHeader}, OrgIds, {0})
    \/ CreateIngredient({NoHeader}, {ValidDate}, OrgIds, {0})
    \/ CreateRecipe({NoHeader}, {ValidDate}, OrgIds, IdLists, {0})
    \/ CreateBatch({NoHeader}, {ValidDate}, OrgIds, {<<>>, <<1>>}, {<<>>, <<10>>}, {0})
    \/ DeleteOrganization({NoHeader}, 0..1)

SpecCascade == Init /\ [][NextCascade]_vars

(* the two password functions applied to passwords, salts and stored hashes *)
NextPassword ==
    \/ HashPassword
    \/ VerifyPassword

SpecPassword == Init /\ [][NextPassword]_vars

(* the health check between registrations, logins, logouts and deletions,  *)
(* with every header a client can send and with the store failing           *)
NextHealth ==
    \/ Register(Emails, {0})
    \/ Login({0})
    \/ Logout({0})
    \/ DeleteOrganization({NoHeader}, {0})
    \/ HealthCheck(Headers(db), 0..1)

SpecHealth == Init /\ [][NextHealth]_vars

(* more requests than the pool has connections; the pool serves the        *)
(* requests that wait for a connection in turn, and the store answers       *)
(* every statement                                                          *)
NextPool ==
    \/ Arrive({"delete_recipe", "update_problem_log", "get_batch"})
    \/ \E c \in Clients : Step(c)

SpecPool == Init /\ [][NextPool]_vars /\ \A c \in Clients : SF_vars(Step(c))

(* the number of composite tables (recipes, batches, problem logs) a run of  *)
(* SpecReplace fills                                                         *)
MaxKinds == 1

CompositeTables == {"recipes", "batches", "problem_logs"}

KindAllowed(d, table) ==
    Cardinality({t \in CompositeTables : d.seq[t] > 0} \cup {table}) <= MaxKinds

(* the composite entities of one organization: each is created with a list  *)
(* of associations, updated with another, and read back                     *)
NextReplace ==
    \/ CreateOrganization({NoHeader}, {"n1"}, {"a@x"}, {0})
    \/ CreateIngredient({NoHeader}, {ValidDate}, {1}, {0})
    \/ CreateEmployee({NoHeader}, {1}, {0})
    \/ (KindAllowed(db, "recipes")
        /\ CreateRecipe({NoHeader}, {ValidDate}, {1}, Lists(IngredientIds, MaxLen), {0}))
    \/ UpdateRecipe({NoHeader}, {"n1"}, {ValidDate}, {1}, Lists(IngredientIds, MaxLen),
                    {0})
    \/ GetRecipe({NoHeader}, {0})
    \/ (KindAllowed(db, "batches")
        /\ CreateBatch({NoHeader}, {ValidDate}, {1}, Lists(IngredientIds, MaxLen),
                       AmountLists, {0}))
    \/ UpdateBatch({NoHeader}, {"n1"}, {ValidDate}, {1}, Lists(IngredientIds, MaxLen),
                   AmountLists, {0})
    \/ GetBatch({NoHeader}, {0})
    \/ (KindAllowed(db, "problem_logs")
        /\ CreateProblemLog({NoHeader}, {ValidDate}, {None}, Lists(EmployeeIds, MaxLen),
                            {0}))
    \/ UpdateProblemLog({NoHeader}, {"n1"}, {ValidDate}, {None},
                        Lists(EmployeeIds, MaxLen), {0})
    \/ GetProblemLog({NoHeader}, {0})

SpecReplace == Init /\ [][NextReplace]_vars

(* deletes of a batch racing with updates of it, statement by statement,    *)
(* and the deletes of the ingredients and employees that association rows   *)
(* reference                                                                *)
NextRace ==
    \/ (db.seq["organizations"] < MaxKinds
        /\ CreateOrganization({NoHeader}, {"n1"}, {"a@x"}, {0}))
    \/ (db.seq["ingredients"] < MaxLen
        /\ CreateIngredient({NoHeader}, {ValidDate}, {1}, {0}))
    \/ DeleteIngredientInTurn
    \/ (db.seq["employees"] < MaxKinds /\ KindAllowed(db, "problem_logs")
        /\ CreateEmployee({NoHeader}, {1}, {0}))
    \/ DeleteEmployee({NoHeader}, {0})
    \/ (KindAllowed(db, "recipes")
        /\ CreateRecipe({NoHeader}, {ValidDate}, {1}, {<<1>>}, {0}))
    \/ DeleteRecipe({NoHeader}, {0})
    \/ (KindAllowed(db, "problem_logs")
        /\ CreateProblemLog({NoHeader}, {ValidDate}, {None}, {<<1>>}, {0}))
    \/ (KindAllowed(db, "batches")
        /\ CreateBatch({NoHeader}, {ValidDate}, {1}, {<<1>>}, {<<10>>}, {0}))
    \/ BeginUpdateBatch({"n1"}, {<<>>, <<2>>}, {<<>>, <<10>>})
    \/ UpdateBatchRow
    \/ DeleteBatchLinks
    \/ InsertBatchLinks
    \/ CommitUpdateBatch
    \/ BeginDeleteBatch
    \/ DeleteLinksOfBatch
    \/ DeleteBatchRow
    \/ CommitDeleteBatch
    \/ StatementFailed

SpecRace == Init /\ [][NextRace]_vars

(* the writes of ingredients and of composite entities, with well-formed    *)
(* and malformed dates and each storage call of a request failing in turn   *)
NextTx ==
    \/ CreateOrganization({NoHeader}, {"n1"}, {"a@x"}, {0})
    \/ CreateIngredient({NoHeader}, Dates, {1}, {0})
    \/ UpdateIngredient({NoHeader}, Dates, {1}, 0..1)
    \/ CreateEmployee({NoHeader}, {1}, {0})
    \/ (KindAllowed(db, "recipes")
        /\ \/ CreateRecipe({NoHeader}, Dates, {1}, IdLists, {0})
           \/ CreateRecipe({NoHeader}, Dates, {1}, {<<1, 2>>}, 1..4))
    \/ UpdateRecipe({NoHeader}, {"n1"}, Dates, {1}, IdLists, {0})
    \/ UpdateRecipe({NoHeader}, {"n1"}, Dates, {1}, {<<1, 2>>}, 1..5)
    \/ DeleteRecipe({NoHeader}, 0..4)
    \/ (KindAllowed(db, "batches")
        /\ \/ CreateBatch({NoHeader}, Dates, {1}, IdLists, AmountLists, {0})
           \/ CreateBatch({NoHeader}, Dates, {1}, {<<1, 2>>}, {<<20, 10>>}, 1..4))
    \/ UpdateBatch({NoHeader}, {"n1"}, Dates, {1}, IdLists, AmountLists, {0})
    \/ UpdateBatch({NoHeader}, {"n1"}, Dates, {1}, {<<1, 2>>}, {<<20, 10>>}, 1..5)
    \/ DeleteBatch({NoHeader}, 0..4)
    \/ (KindAllowed(db, "problem_logs")
        /\ \/ CreateProblemLog({NoHeader}, Dates, {None, Some(ValidDate), Some(BadDate)},
                               IdLists, {0})
           \/ CreateProblemLog({NoHeader}, Dates, {None, Some(BadDate)}, {<<1, 2>>},
                               1..4))
    \/ UpdateProblemLog({NoHeader}, {"n1"}, Dates,
                        {None, Some(ValidDate), Some(BadDate)}, IdLists, {0})
    \/ UpdateProblemLog({NoHeader}, {"n1"}, Dates, {None, Some(BadDate)}, {<<1, 2>>},
                        1..5)
    \/ DeleteProblemLog({NoHeader}, 0..4)

SpecTx == Init /\ [][NextTx]_vars

----------------------------------------------------------------------------
(* Properties *)

EmployeeOps == {"get_employee", "update_employee", "delete_employee"}

RecipeOps == {"get_recipe", "update_recipe", "delete_recipe"}

(* the endpoints under /api other than the three of /api/auth *)
EntityOps ==
    {"create_organization", "get_organization", "get_all_organizations",
     "update_organization", "delete_organization",
     "create_employee", "get_employee", "get_all_employees", "update_employee",
     "delete_employee",
     "create_ingredient", "get_ingredient",
     "create_recipe", "get_recipe", "get_all_recipes", "update_recipe", "delete_recipe",
     "create_batch", "get_batch", "update_batch", "delete_batch",
     "create_problem_log", "get_problem_log", "update_problem_log"}

(* the org_id of the row with the identifier, 0 if there is none *)
RowOwner(rows, id) ==
    LET hit == {r \in rows : r.id = id}
    IN  IF hit = {} THEN 0 ELSE (CHOOSE r \in hit : TRUE).org_id

(* the organization that owns the row a request names by identifier *)
TargetOwner(d, req) ==
    IF req.op \in EmployeeOps THEN RowOwner(d.employees, req.id)
    ELSE IF req.op \in RecipeOps THEN RowOwner(d.recipes, req.id)
    ELSE 0

(* C1, tenant isolation: a get, update or delete whose bearer token resolves *)
(* to organization A and whose identifier names a row owned by another      *)
(* organization B is answered 403 or 404 and leaves the store as it was.    *)
C1_TenantIsolation ==
    [][LET caller == verify_auth(last'.header, db, now, 0)
           owner == TargetOwner(db, last')
       IN  (caller.ok /\ owner # 0 /\ owner # caller.org_id)
               => (last'.status \in {403, 404} /\ db' = db)]_vars

(* C2, authentication gate: a request to an entity endpoint whose           *)
(* Authorization header the tenant resolver does not resolve to an          *)
(* organization is answered 401 and leaves the store as it was.             *)
C2_AuthenticationGate ==
    [][(last'.op \in EntityOps /\ ~verify_auth(last'.header, db, now, 0).ok)
           => (last'.status = 401 /\ db' = db)]_vars

(* the resolver rejects the token at every time of the clock *)
Rejected(d, token) ==
    \A clock \in 0..MaxTime : ~verify_auth(Bearer(token), d, clock, 0).ok

(* C3, token lifecycle: the token a successful login or registration        *)
(* returns resolves at once to the organization of the response; a token    *)
(* that is not revoked resolves at every time from now to before its        *)
(* expiry; after a successful logout the token is rejected at every time,   *)
(* whatever its expiry; and no request brings a rejected token back. (The   *)
(* resolver is taken with its SELECT answering.)                            *)
C3_TokenLifecycle ==
    [][/\ (last'.op \in {"register", "login"} /\ last'.status \in {200, 201})
              => verify_auth(Bearer(last'.body.token), db', now', 0)
                     = AuthOk(last'.body.organization.id)
       /\ \A r \in db'.access_tokens :
              ~r.is_revoked
                  => \A clock \in now'..(r.expires_at - 1) :
                         verify_auth(Bearer(r.token), db', clock, 0) = AuthOk(r.org_id)
       /\ (last'.op = "logout" /\ last'.status = 200)
              => Rejected(db', last'.header.credentials)
       /\ \A token \in IssuedTokens(db) \cup {ForgedToken} :
              Rejected(db, token) => Rejected(db', token)]_vars

(* the resolver was asked, before its expiry, about a token that a logout   *)
(* had revoked, and rejected it                                              *)
C3_Witness ==
    /\ last.op = "verify_auth"
    /\ last.fail = 0
    /\ last.body.msg = "Token has been revoked"
    /\ \E r \in db.access_tokens :
           r.token = last.header.credentials /\ r.is_revoked /\ now < r.expires_at

(* C4, expiry rule: whenever the resolver accepts a token, the token's row  *)
(* is not revoked and the time is strictly before its expires_at; at        *)
(* now = expires_at the token is rejected.                                  *)
C4_ExpiryRule ==
    (last.op = "verify_auth" /\ last.body.ok)
        => \A r \in db.access_tokens :
               r.token = last.header.credentials
                   => (~r.is_revoked /\ now < r.expires_at)

(* C5, composite atomicity: a recipe creation whose list names an           *)
(* ingredient of the payload's organization and an ingredient of another    *)
(* organization fails, and adds no recipe and no association row.           *)
C5_CompositeAtomicity ==
    [][LET recipe == last'.payload
           owners == {RowOwner(db.ingredients, recipe.ingredients[k])
                         : k \in 1..Len(recipe.ingredients)}
       IN  (/\ last'.op = "create_recipe"
            /\ recipe.org_id \in owners
            /\ owners \ {0, recipe.org_id} # {})
               => /\ last'.status >= 400
                  /\ db'.recipes = db.recipes
                  /\ db'.recipe_ingredients = db.recipe_ingredients]_vars

(* the two arrays of a batch payload differ in length *)
ArraysMismatch(batch) == Len(batch.ingredients) # Len(batch.amount_ingredients)

(* C6, batch array invariant: a batch creation or update whose ingredients  *)
(* and amount_ingredients differ in length is answered 400 before any       *)
(* transaction is begun, and leaves the store as it was.                    *)
C6_BatchArrayInvariant ==
    [][(last'.op \in {"create_batch", "update_batch"} /\ ArraysMismatch(last'.payload))
           => (last'.status = 400 /\ last'.tx = "none" /\ db' = db)]_vars

(* a batch creation with a valid date, an existing organization and         *)
(* existing ingredients was refused for the lengths alone                   *)
C6_Witness ==
    /\ last.op = "create_batch"
    /\ last.fail = 0
    /\ parse_date(last.payload.date_made).ok
    /\ OrgExists(db, last.payload.org_id)
    /\ last.payload.ingredients # <<>>
    /\ LinksAccepted(db, last.payload.ingredients)
    /\ ArraysMismatch(last.payload)
    /\ last.status = 400

(* the pairs (ingredient, amount) of two parallel arrays *)
Pairs(ingredients, amounts) ==
    {<<ingredients[k], amounts[k]>> : k \in 1..Len(ingredients)}

(* C7, update replaces associations: after a successful update of a recipe, *)
(* a batch or a problem log with the list L, a get of the same identifier   *)
(* returns, in whatever order the store lists the rows, exactly the members *)
(* of L (for a batch, exactly the pairs of L and its amounts), each once.   *)
C7_UpdateReplacesAssociations ==
    /\ (last.op = "update_recipe" /\ last.status = 200)
           => \A order \in Orders(RecipeIngredientIds(db, last.id)) :
                  LET got == get_recipe(last.id, order, db, 0)
                  IN  /\ got.status = 200
                      /\ Range(got.body.ingredients) = Range(last.payload.ingredients)
                      /\ Len(got.body.ingredients) = Len(last.payload.ingredients)
    /\ (last.op = "update_batch" /\ last.status = 200)
           => \A order \in Orders(BatchRows(db, last.id)) :
                  LET got == get_batch(last.id, order, db, 0)
                  IN  /\ got.status = 200
                      /\ Pairs(got.body.ingredients, got.body.amount_ingredients)
                             = Pairs(last.payload.ingredients,
                                     last.payload.amount_ingredients)
                      /\ Len(got.body.ingredients) = Len(last.payload.ingredients)
    /\ (last.op = "update_problem_log" /\ last.status = 200)
           => \A order \in Orders(AssignedEmployeeIds(db, last.id)) :
                  LET got == get_problem_log(last.id, order, db, 0)
                  IN  /\ got.status = 200
                      /\ Range(got.body.assigned_to) = Range(last.payload.assigned_to)
                      /\ Len(got.body.assigned_to) = Len(last.payload.assigned_to)

(* a recipe was updated with the list [3] and holds ingredient 3 alone *)
C7_Witness ==
    /\ last.op = "update_recipe"
    /\ last.status = 200
    /\ last.payload.ingredients = <<3>>
    /\ RecipeIngredientIds(db, last.id) = {3}

(* C8, idempotent logout: on every reachable store and for every bearer     *)
(* header a client can send, logout answers 200, a second logout of the     *)
(* same header answers 200 too and leaves the store as the first left it:   *)
(* the token's rows revoked, every other row and table as before.           *)
C8_IdempotentLogout ==
    \A header \in {h \in Headers(db) : h.scheme = "Bearer"} :
        LET first == logout_organization(header, db, 0)
            second == logout_organization(header, first.db, 0)
        IN  /\ first.status = 200
            /\ second.status = 200
            /\ second.db = first.db
            /\ \A r \in second.db.access_tokens :
                   r.token = header.credentials => r.is_revoked
            /\ {r \in second.db.access_tokens : r.token # header.credentials}
                   = {r \in db.access_tokens : r.token # header.credentials}
            /\ [second.db EXCEPT !.access_tokens = {}] = [db EXCEPT !.access_tokens = {}]

(* a logout of an issued token was answered 200 and the token is revoked *)
C8_Witness ==
    /\ last.op = "logout"
    /\ last.fail = 0
    /\ last.status = 200
    /\ \E r \in db.access_tokens : r.token = last.header.credentials /\ r.is_revoked

(* C9, organization round trip: a creation answered 201 returns the         *)
(* payload's name and email with an identifier no organization had, and a   *)
(* get of that identifier returns the same id, name and email; and a get    *)
(* keeps its answer over every request that is not an update or delete of   *)
(* that identifier.                                                         *)
C9_OrganizationRoundTrip ==
    [][/\ (last'.op = "create_organization" /\ last'.status = 201)
              => LET body == last'.body
                     got == get_organization(body.id, db', 0)
                 IN  /\ body.name = last'.payload.name
                     /\ body.email = last'.payload.email
                     /\ ~OrgExists(db, body.id)
                     /\ got.status = 200
                     /\ got.body = body
       /\ \A id \in OrgIds :
              (/\ OrgExists(db, id)
               /\ ~(last'.op \in {"update_organization", "delete_organization"}
                    /\ last'.id = id))
                  => get_organization(id, db', 0).body = get_organization(id, db, 0).body
      ]_vars

(* an organization made by POST /api/orgs (it has no password hash) was     *)
(* read back by GET /api/orgs/{id}                                          *)
C9_Witness ==
    /\ last.op = "get_organization"
    /\ last.status = 200
    /\ \E o \in db.organizations : o.id = last.id /\ o.password_hash = NoHash

(* C10, delete then get: with the store answering, a delete of an existing  *)
(* organization is answered 204 and a get of the identifier then finds      *)
(* nothing; a delete of an identifier that names no organization is         *)
(* answered 404 and changes nothing; and an identifier that was handed out  *)
(* and names no organization is answered 404 after every later request.     *)
C10_DeleteThenGet ==
    [][/\ (last'.op = "delete_organization" /\ last'.fail = 0)
              => IF OrgExists(db, last'.id)
                 THEN /\ last'.status = 204
                      /\ get_organization(last'.id, db', 0).status = 404
                 ELSE /\ last'.status = 404
                      /\ db' = db
       /\ \A id \in 1..db.seq["organizations"] :
              ~OrgExists(db, id) => get_organization(id, db', 0).status = 404]_vars

(* a get of an identifier that had been handed out, and deleted since, was  *)
(* answered 404                                                             *)
C10_Witness ==
    /\ last.op = "get_organization"
    /\ last.fail = 0
    /\ last.status = 404
    /\ last.id <= db.seq["organizations"]

(* C11, organization update: with the store answering, an update of an      *)
(* existing organization is answered 200 with that id and the payload's     *)
(* name and email, a get of the id then returns them, and every other row   *)
(* of every table is as before; an update of an id that names no            *)
(* organization is answered 404 and changes nothing.                        *)
C11_OrganizationUpdate ==
    [][(last'.op = "update_organization" /\ last'.fail = 0)
           => IF OrgExists(db, last'.id)
              THEN LET wanted == [id |-> last'.id, name |-> last'.payload.name,
                                  email |-> last'.payload.email]
                       got == get_organization(last'.id, db', 0)
                   IN  /\ last'.status = 200
                       /\ last'.body = wanted
                       /\ got.status = 200
                       /\ got.body = wanted
                       /\ {o \in db'.organizations : o.id # last'.id}
                              = {o \in db.organizations : o.id # last'.id}
                       /\ [db' EXCEPT !.organizations = {}]
                              = [db EXCEPT !.organizations = {}]
              ELSE /\ last'.status = 404
                   /\ db' = db]_vars

(* one of two organizations was updated to a name and an email the other    *)
(* does not have                                                            *)
C11_Witness ==
    /\ last.op = "update_organization"
    /\ last.status = 200
    /\ \E o \in db.organizations :
           /\ o.id # last.id
           /\ o.name # last.payload.name
           /\ o.email # last.payload.email

ListOps == {"get_all_employees", "get_all_recipes"}

(* C12, scoped list: a list of employees or of recipes asked for with a     *)
(* bearer token that resolves to organization A holds only entities whose   *)
(* org_id is A.                                                             *)
C12_ScopedList ==
    [][LET caller == verify_auth(last'.header, db, now, 0)
       IN  (last'.op \in ListOps /\ last'.status = 200 /\ caller.ok)
               => \A e \in last'.body.list : e.org_id = caller.org_id]_vars

OrgIdOps == {"get_organization", "update_organization", "delete_organization"}

(* C13, organization self-scoping: a get, update or delete of               *)
(* /api/orgs/{id} whose bearer token resolves to an organization other than *)
(* id is answered 403 and leaves the organizations table as it was.         *)
C13_OrganizationSelfScoping ==
    [][LET caller == verify_auth(last'.header, db, now, 0)
       IN  (last'.op \in OrgIdOps /\ caller.ok /\ last'.id # caller.org_id)
               => (last'.status = 403 /\ db'.organizations = db.organizations)]_vars

(* the list names an ingredient that does not exist or that another         *)
(* organization than org_id owns                                            *)
BadReference(d, org_id, ingredients) ==
    \E k \in 1..Len(ingredients) :
        RowOwner(d.ingredients, ingredients[k]) # org_id

(* C14, ingredient reference validation: a creation or update of a recipe   *)
(* whose list names an ingredient that does not exist, or that belongs to   *)
(* another organization than the payload's, is answered with a 4xx status   *)
(* and leaves the store as it was.                                          *)
C14_IngredientReferenceValidation ==
    [][(/\ last'.op \in {"create_recipe", "update_recipe"}
        /\ BadReference(db, last'.payload.org_id, last'.payload.ingredients))
           => (last'.status \in 400..499 /\ db' = db)]_vars

(* C15, recipe ownership invariant: every row of recipe_ingredients joins a *)
(* recipe and an ingredient of the same organization.                       *)
C15_RecipeOwnershipInvariant ==
    \A l \in db.recipe_ingredients :
        RowOwner(db.recipes, l.recipe_id) = RowOwner(db.ingredients, l.ingredient_id)

(* C16, login failure: on every reachable store, with the lookup answering, *)
(* a login whose email matches no organization and a login whose password   *)
(* does not verify against the row found are both answered 401 with the     *)
(* body "Invalid credentials", and both leave the store as it was.          *)
C16_LoginFailure ==
    \A email \in Emails, password \in Passwords :
        \A record \in LoginRecords(db, email) :
            (record = Nil \/ ~verify_password(password, record.password_hash))
                => login_organization([email |-> email, password |-> password],
                                      record, db, now, 0)
                       = Response(401, ErrorBody("Invalid credentials"), db)

(* a login with the email of a registered organization and another password *)
(* than its own was answered 401                                             *)
C16_Witness ==
    /\ last.op = "login"
    /\ last.fail = 0
    /\ last.status = 401
    /\ last.body = ErrorBody("Invalid credentials")
    /\ \E o \in db.organizations :
           /\ o.email = last.payload.email
           /\ ~verify_password(last.payload.password, o.password_hash)
    /\ \E email \in Emails : LoginRecords(db, email) = {Nil}

(* C17, token issuance: a successful login or registration leaves every     *)
(* earlier row of access_tokens as it was and adds exactly one: its token   *)
(* is the one in the response and was never issued before, its org_id is    *)
(* the organization of the response, which is the one that holds the        *)
(* request's email and password (and is new, for a registration), it is not *)
(* revoked, and its expires_at is the lifetime of 7 days after now; the     *)
(* resolver maps the token to exactly that org_id.                          *)
C17_TokenIssuance ==
    [][(last'.op \in {"register", "login"} /\ last'.status \in {200, 201})
           => LET org == last'.body.organization
                  token == last'.body.token
              IN  /\ db.access_tokens \subseteq db'.access_tokens
                  /\ db'.access_tokens \ db.access_tokens
                         = {[token |-> token, org_id |-> org.id,
                             expires_at |-> now + TokenLifetime, is_revoked |-> FALSE]}
                  /\ token \notin IssuedTokens(db)
                  /\ \E o \in db'.organizations :
                         /\ o.id = org.id
                         /\ o.email = last'.payload.email
                         /\ verify_password(last'.payload.password, o.password_hash)
                  /\ (last'.op = "register") => ~OrgExists(db, org.id)
                  /\ (last'.op = "login") => OrgExists(db, org.id)
                  /\ verify_auth(Bearer(token), db', now', 0) = AuthOk(org.id)]_vars

(* the second organization logged in and was given a token of its own,      *)
(* beside the token of the first                                            *)
C17_Witness ==
    /\ last.op = "login"
    /\ last.status = 200
    /\ last.body.organization.id = 2
    /\ \E r \in db.access_tokens : r.token = last.body.token /\ r.org_id = 2
    /\ \E r \in db.access_tokens : r.org_id = 1

(* C18, revoked is terminal: over every request, a row of access_tokens     *)
(* that is revoked stays revoked as long as it is there, and its token is   *)
(* rejected by the resolver at every time afterwards.                       *)
C18_RevokedIsTerminal ==
    [][\A r \in db.access_tokens :
           r.is_revoked
               => /\ \A s \in db'.access_tokens : s.token = r.token => s.is_revoked
                  /\ Rejected(db', r.token)]_vars

(* an organization whose token was logged out logged in again: it holds a   *)
(* new token, and the old one is still revoked                              *)
C18_Witness ==
    /\ last.op = "login"
    /\ last.status = 200
    /\ \E r \in db.access_tokens :
           /\ r.is_revoked
           /\ r.org_id = last.body.organization.id
           /\ r.token # last.body.token

(* C19, token rows are an audit trail: over every request, every row of     *)
(* access_tokens is still there unchanged, or the request is a logout of    *)
(* its token and the row is there with is_revoked turned from false to      *)
(* true; this holds when the organization of the row is deleted too.        *)
C19_TokenAuditTrail ==
    [][\A r \in db.access_tokens :
           \/ r \in db'.access_tokens
           \/ /\ last'.op = "logout"
              /\ last'.header.credentials = r.token
              /\ ~r.is_revoked
              /\ [r EXCEPT !.is_revoked = TRUE] \in db'.access_tokens]_vars

(* an organization was deleted and a token row of it is still stored *)
C19_Witness ==
    /\ last.op = "delete_organization"
    /\ last.status = 204
    /\ \E r \in db.access_tokens : r.org_id = last.id

(* C20, fixed token lifetime: every token generate_token produces has       *)
(* exp = iat + the lifetime of 7 days.                                      *)
C20_FixedTokenLifetime ==
    (last.op = "generate_token" /\ last.status = 200)
        => last.body.exp - last.body.iat = TokenLifetime

(* C21: a storage failure met while serving a read of batches or problem    *)
(* logs (the query of the primary rows, or the association query of an      *)
(* entry that the primary query returned) is answered with a 5xx status     *)
StorageFailureMet(d, req) ==
    \/ req.op \in {"get_batch", "get_problem_log", "get_all_batches",
                    "get_all_problem_logs"}
       /\ req.fail = 1
    \/ req.op = "get_batch" /\ req.fail = 2 /\ \E b \in d.batches : b.id = req.id
    \/ req.op = "get_problem_log" /\ req.fail = 2
       /\ \E p \in d.problem_logs : p.id = req.id
    \/ req.op = "get_all_batches" /\ req.fail \in 2..(Cardinality(d.batches) + 1)
    \/ req.op = "get_all_problem_logs"
       /\ req.fail \in 2..(Cardinality(d.problem_logs) + 1)

C21_NoSwallowedStorageFailure ==
    [][StorageFailureMet(db, last') => last'.status \in 500..599]_vars

CompositeWrites ==
    {"create_recipe", "update_recipe", "delete_recipe",
     "create_batch", "update_batch", "delete_batch",
     "create_problem_log", "update_problem_log", "delete_problem_log"}

(* C22: a write of a recipe, batch or problem log that is answered 5xx      *)
(* because a statement failed after the transaction was begun (neither the  *)
(* begin nor the commit) was rolled back before the answer, reports one     *)
(* error, and leaves the store as it was before the request                 *)
C22_RollbackOnFailure ==
    [][(/\ last'.op \in CompositeWrites
        /\ last'.status \in 500..599
        /\ last'.tx \notin {"begin failed", "commit failed"})
       => (/\ last'.tx = "rolled back"
           /\ DOMAIN last'.body = {"error"}
           /\ db' = db)]_vars

(* the insert of the second association row of a create failed after the    *)
(* primary row and the first association row were written                   *)
C22_Witness ==
    /\ last.op = "create_recipe"
    /\ last.status = 500
    /\ last.tx = "rolled back"
    /\ Len(last.payload.ingredients) = 2
    /\ IngredientExists(db, last.payload.ingredients[1])
    /\ ~IngredientExists(db, last.payload.ingredients[2])
    /\ db.recipes = {}
    /\ db.recipe_ingredients = {}

(* the date fields of a create or update that the handler's parser rejects *)
DateRejected(req) ==
    \/ req.op \in {"create_ingredient", "update_ingredient"}
       /\ ~parse_date(req.payload.date).ok
    \/ req.op \in {"create_recipe", "update_recipe", "create_batch", "update_batch"}
       /\ ~parse_date(req.payload.date_made).ok
    \/ req.op \in {"create_problem_log", "update_problem_log"}
       /\ \/ ~parse_date(req.payload.date_opened).ok
          \/ req.payload.date_resolved # None
             /\ ~parse_date(req.payload.date_resolved[1]).ok

(* C23: a create or update of an ingredient, recipe, batch or problem log   *)
(* with a date field that does not parse is answered 400, begins no         *)
(* transaction, and leaves the store unchanged, whichever storage call      *)
(* would have failed                                                        *)
C23_ValidationPrecedesTransaction ==
    [][DateRejected(last')
       => (last'.status = 400 /\ last'.tx = "none" /\ db' = db)]_vars

(* an update of an existing problem log with a well-formed date_opened and  *)
(* a malformed date_resolved, sent when begin would have failed             *)
C23_Witness ==
    /\ last.op = "update_problem_log"
    /\ \E p \in db.problem_logs : p.id = last.id
    /\ last.payload.date_opened = ValidDate
    /\ last.payload.date_resolved = Some(BadDate)
    /\ last.fail = 1
    /\ last.status = 400

(* the primary row and the association rows of the entity a delete names *)
Composite(d, req) ==
    CASE req.op = "delete_recipe" ->
             [primary |-> {r \in d.recipes : r.id = req.id},
              links |-> {l \in d.recipe_ingredients : l.recipe_id = req.id}]
      [] req.op = "delete_batch" ->
             [primary |-> {b \in d.batches : b.id = req.id},
              links |-> {l \in d.batch_ingredients : l.batch_id = req.id}]
      [] req.op = "delete_problem_log" ->
             [primary |-> {p \in d.problem_logs : p.id = req.id},
              links |-> {l \in d.problem_logs_employees : l.problem_log_id = req.id}]

(* C24: a delete of a recipe, batch or problem log answered 204 leaves      *)
(* neither the primary row nor an association row of that id, and a delete  *)
(* however answered leaves either both as they were or neither              *)
C24_AtomicCompositeDelete ==
    [][last'.op \in {"delete_recipe", "delete_batch", "delete_problem_log"}
       => LET gone == [primary |-> {}, links |-> {}]
          IN  /\ last'.status = 204 => Composite(db', last') = gone
              /\ Composite(db', last') \in {Composite(db, last'), gone}]_vars

(* a batch was created and then deleted with 204 while ingredients exist *)
C24_Witness ==
    /\ last.op = "delete_batch"
    /\ last.status = 204
    /\ last.tx = "committed"
    /\ db.seq["batches"] = last.id
    /\ db.ingredients # {}
    /\ db.batches = {}
    /\ db.batch_ingredients = {}

(* the answers of a get of batch id served in one piece from store d *)
CompleteBatch(id, d) ==
    {get_batch(id, order, d, 0).body : order \in Orders(BatchRows(d, id))}

(* C25: a get of a batch that is answered 200 while updates or deletes of   *)
(* the batch commit returns the complete batch of the store as it was when  *)
(* the get began or as it is when the get ends                              *)
C25_ReaderAtomicity ==
    [][\A c \in Clients :
          (inflight[c].pc = "get_batch" /\ inflight'[c] = Idle /\ last'.status = 200)
          => last'.body \in CompleteBatch(inflight[c].id, inflight[c].before)
                              \cup CompleteBatch(inflight[c].id, db)]_vars

(* the row and the association rows of batch id in store d *)
BatchState(d, id) ==
    [primary |-> {b \in d.batches : b.id = id}, links |-> BatchRows(d, id)]

(* the state of batch id that an update with this input alone leaves *)
BatchInputState(d, id, batch) == BatchState(update_batch(id, batch, d, 0).db, id)

(* C26: when an update of a batch commits and is answered 200, and an       *)
(* update of the same batch that ran concurrently with it was answered 200  *)
(* before, the committed row and association rows of the batch are those of *)
(* the input of one of the two                                              *)
C26_LastWriterWins ==
    [][\A c \in Clients :
          (/\ inflight[c].pc = "update_batch"
           /\ inflight'[c].pc = "answered"
           /\ inflight'[c].status = 200)
          => \A o \in inflight'[c].with :
                (/\ inflight'[o].pc = "answered"
                 /\ inflight'[o].status = 200
                 /\ inflight'[o].id = inflight'[c].id)
                => BatchState(db', inflight'[c].id)
                       \in {BatchInputState(db', inflight'[c].id, inflight'[c].batch),
                            BatchInputState(db', inflight'[c].id, inflight'[o].batch)}]_vars

(* two updates of one batch with different employees and different          *)
(* ingredients ran concurrently and were both answered 200                  *)
C26_Witness ==
    \E c, o \in Clients :
        /\ c # o
        /\ inflight[c].pc = "answered" /\ inflight[o].pc = "answered"
        /\ inflight[c].status = 200 /\ inflight[o].status = 200
        /\ inflight[c].id = inflight[o].id
        /\ o \in inflight[c].with
        /\ inflight[c].batch.employee # inflight[o].batch.employee
        /\ inflight[c].batch.ingredients = <<1>>
        /\ inflight[o].batch.ingredients = <<2>>
        /\ BatchState(db, inflight[c].id).links # {}

(* C27: after a delete of an organization answered 204, no employee,       *)
(* ingredient, recipe or batch of that organization is left, nor an         *)
(* association row of a recipe or batch it had                              *)
C27_OrganizationDeleteCascades ==
    [][(last'.op = "delete_organization" /\ last'.status = 204)
       => LET id == last'.id
              recipes == {r.id : r \in {x \in db.recipes : x.org_id = id}}
              batches == {b.id : b \in {x \in db.batches : x.org_id = id}}
          IN  /\ \A e \in db'.employees : e.org_id # id
              /\ \A i \in db'.ingredients : i.org_id # id
              /\ \A r \in db'.recipes : r.org_id # id
              /\ \A b \in db'.batches : b.org_id # id
              /\ \A l \in db'.recipe_ingredients : l.recipe_id \notin recipes
              /\ \A l \in db'.batch_ingredients : l.batch_id \notin batches]_vars

(* an organization was deleted while another stays, and the recipe, the     *)
(* batch and the ingredients that had been created went with it             *)
C27_Witness ==
    /\ last.op = "delete_organization"
    /\ last.status = 204
    /\ Cardinality(db.organizations) = 1
    /\ db.seq["employees"] > 0 /\ db.employees = {}
    /\ db.seq["ingredients"] > 1 /\ db.ingredients = {}
    /\ db.seq["recipes"] > 0 /\ db.recipes = {} /\ db.recipe_ingredients = {}
    /\ db.seq["batches"] > 0 /\ db.batches = {} /\ db.batch_ingredients = {}

(* C28: verify_password is true for the password a stored hash was made    *)
(* from and false for every other password; the hash made from a password   *)
(* is not that password; and verify_password is false for a stored hash     *)
(* that is empty or no hash of this algorithm                               *)
C28_PasswordHashing ==
    /\ last.op = "hash_password"
       => /\ last.body.hash # Plain(last.payload.password)
          /\ verify_password(last.payload.password, last.body.hash)
          /\ \A q \in PasswordTexts \ {last.payload.password} :
                 ~verify_password(q, last.body.hash)
    /\ last.op = "verify_password"
       => LET made == {ps \in PasswordTexts \X SaltTexts :
                          hash_password(ps[1], ps[2]).hash = last.payload.hash}
          IN  IF made = {}
              THEN last.body = FALSE
              ELSE \A ps \in made : last.body = (last.payload.password = ps[1])

(* a password was checked against the hash of another password, and the    *)
(* text of a password against a column that holds that very text           *)
C28_Witness ==
    /\ last.op = "verify_password"
    /\ last.body = FALSE
    /\ \/ /\ last.payload.hash = hash_password("pw1", "s1").hash
          /\ last.payload.password = "pw2"
       \/ /\ last.payload.hash = Plain("pw1")
          /\ last.payload.password = "pw1"

(* C29: GET /health is answered 200 with status "healthy" in every state,  *)
(* whatever Authorization header it carries and whether or not the store    *)
(* answers, and changes nothing                                             *)
C29_HealthCheck ==
    [][last'.op = "health_check"
       => /\ last'.status = 200
          /\ last'.body = [status |-> "healthy"]
          /\ UNCHANGED <<db, now, inflight>>]_vars

(* the health check was asked with a bearer token of an organization that  *)
(* no longer exists, while the store was failing                            *)
C29_Witness ==
    /\ last.op = "health_check"
    /\ last.status = 200
    /\ last.fail = 1
    /\ last.header.scheme = "Bearer"
    /\ last.header.credentials \in IssuedTokens(db)
    /\ db.organizations = {}

(* C30: the resolver answers Unauthorized to a request without a bearer    *)
(* header even when the store fails (it has not asked the store); with a    *)
(* bearer header it answers Unauthorized when no row holds that token, and  *)
(* reports a row that is revoked and past its expiry as revoked; it returns *)
(* an org_id only for a bearer token whose row is neither revoked nor past  *)
(* its expiry, and then the org_id of that row                              *)
C30_ResolverCheckOrder ==
    last.op = "verify_auth"
        => LET rows == {r \in db.access_tokens : r.token = last.header.credentials}
           IN  /\ last.header.scheme # "Bearer"
                  => last.body = Unauthorized("Missing or invalid authorization header")
               /\ (last.header.scheme = "Bearer" /\ last.fail = 0 /\ rows = {})
                  => (~last.body.ok /\ last.body.err = "Unauthorized")
               /\ (/\ last.header.scheme = "Bearer"
                   /\ last.fail = 0
                   /\ \E r \in rows : r.is_revoked /\ r.expires_at < now)
                  => last.body = Unauthorized("Token has been revoked")
               /\ last.body.ok
                  => /\ last.header.scheme = "Bearer"
                     /\ \E r \in rows : /\ ~r.is_revoked
                                         /\ ~(r.expires_at < now)
                                         /\ last.body.org_id = r.org_id

(* the resolver was asked about a token whose row is revoked and past its   *)
(* expiry                                                                   *)
C30_Witness ==
    /\ last.op = "verify_auth"
    /\ last.header.scheme = "Bearer"
    /\ last.fail = 0
    /\ last.body.msg = "Token has been revoked"
    /\ \E r \in db.access_tokens :
           r.token = last.header.credentials /\ r.is_revoked /\ r.expires_at < now

(* C31: after a successful create or update of a batch with the lists I    *)
(* and A, a get of that batch, in whatever order the store lists the rows,  *)
(* returns two lists of the length of I whose pairs at each position are    *)
(* pairs (I[k], A[k]) of the request, and all of them                       *)
C31_BatchRoundTrip ==
    (last.op \in {"create_batch", "update_batch"} /\ last.status \in {200, 201})
        => \A order \in Orders(BatchRows(db, last.body.id)) :
               LET got == get_batch(last.body.id, order, db, 0).body
                   sent == Pairs(last.payload.ingredients, last.payload.amount_ingredients)
               IN  /\ Len(got.ingredients) = Len(got.amount_ingredients)
                   /\ Len(got.ingredients) = Len(last.payload.ingredients)
                   /\ \A k \in 1..Len(got.ingredients) :
                          <<got.ingredients[k], got.amount_ingredients[k]>> \in sent
                   /\ \A p \in sent :
                          \E k \in 1..Len(got.ingredients) :
                              p = <<got.ingredients[k], got.amount_ingredients[k]>>

(* a batch was created with two ingredients and two different amounts *)
C31_Witness ==
    /\ last.op = "create_batch"
    /\ last.status = 201
    /\ Len(last.payload.ingredients) = 2
    /\ last.payload.amount_ingredients[1] # last.payload.amount_ingredients[2]
    /\ Cardinality(BatchRows(db, last.body.id)) = 2

(* C32: the requests in flight never hold more connections than the pool   *)
(* has, and every request that has arrived is eventually answered and then  *)
(* holds no connection                                                      *)
C32_PoolProgress ==
    /\ [](Cardinality(Held) <= MaxConnections)
    /\ \A c \in Clients : (inflight[c].pc = "running") ~> (inflight[c] = Idle)

(* a transaction holds the last connection of the pool while another       *)
(* request waits to begin its own                                          *)
C32_Witness ==
    \E c, o \in Clients :
        /\ c # o
        /\ Cardinality(Held) = MaxConnections
        /\ c \in Held
        /\ inflight[c].op = "update_problem_log" /\ inflight[c].at = 3
        /\ inflight[o].pc = "running" /\ inflight[o].op = "delete_recipe"
        /\ inflight[o].at = 1

(* C33: a registration that is answered with an error leaves no           *)
(* organizations row and no access_tokens row behind                       *)
C33_RegistrationAllOrNothing ==
    [][(last'.op = "register" /\ last'.status # 201)
           => /\ db'.organizations = db.organizations
              /\ db'.access_tokens = db.access_tokens]_vars

(* C34: a logout leaves every table but access_tokens as it was, changes   *)
(* no row whose token string differs from the presented one, changes at    *)
(* most the revoked flag of the others, answers 400 and changes nothing    *)
(* without a bearer token, and answers 200 and changes nothing when no row *)
(* holds the presented token                                               *)
C34_LogoutFrame ==
    [][last'.op = "logout"
           => LET token == get_token_from_request(last'.header)
                  others(d) == {r \in d.access_tokens : r.token # token}
                  flagless(d) == {[r EXCEPT !.is_revoked = TRUE] :
                                     r \in d.access_tokens \ others(d)}
              IN  /\ [db' EXCEPT !.access_tokens = {}] = [db EXCEPT !.access_tokens = {}]
                  /\ others(db') = others(db)
                  /\ flagless(db') = flagless(db)
                  /\ token = Nil => last'.status = 400 /\ db' = db
                  /\ (token # Nil /\ last'.fail = 0 /\ others(db) = db.access_tokens)
                         => last'.status = 200 /\ db' = db]_vars

(* a logout has revoked one token of an organization that holds another,   *)
(* still valid one                                                         *)
C34_Witness ==
    /\ last.op = "logout" /\ last.status = 200
    /\ \E r, o \in db.access_tokens :
           /\ r.token = get_token_from_request(last.header)
           /\ r.is_revoked
           /\ o.org_id = r.org_id /\ o.token # r.token /\ ~o.is_revoked

C36_OwnershipImmutable ==
    [][/\ \A e \in db.employees, f \in db'.employees :
              e.id = f.id => f.org_id = e.org_id
       /\ \A e \in db.ingredients, f \in db'.ingredients :
              e.id = f.id => f.org_id = e.org_id
       /\ \A e \in db.recipes, f \in db'.recipes :
              e.id = f.id => f.org_id = e.org_id
       /\ \A e \in db.batches, f \in db'.batches :
              e.id = f.id => f.org_id = e.org_id]_vars

(* C37: the token of an organization that no longer exists does not resolve *)
(* to that organization                                                     *)
C37_NoTokenOutlivesOrganization ==
    \A r \in db.access_tokens :
        ~OrgExists(db, r.org_id)
            => verify_auth(Bearer(r.token), db, now, 0) # AuthOk(r.org_id)

(* C38: an update or delete of a recipe, batch or problem log whose id does *)
(* not exist leaves every table as it was, and when no storage call fails   *)
(* and the payload is accepted it is answered 404 after a rollback          *)
C38_NotFoundFrame ==
    [][LET missing ==
               \/ /\ last'.op \in {"update_recipe", "delete_recipe"}
                  /\ ~\E r \in db.recipes : r.id = last'.id
               \/ /\ last'.op \in {"update_batch", "delete_batch"}
                  /\ ~\E b \in db.batches : b.id = last'.id
               \/ /\ last'.op \in {"update_problem_log", "delete_problem_log"}
                  /\ ~\E p \in db.problem_logs : p.id = last'.id
       IN  missing
               => /\ db' = db
                  /\ last'.fail = 0 => last'.status \in {400, 404}
                  /\ last'.status = 404 => last'.tx = "rolled back"
                  /\ (last'.fail = 0 /\ last'.payload = Nil) => last'.status = 404]_vars

(* an update of a batch that does not exist, carrying ingredients that do,  *)
(* was answered 404                                                         *)
C38_Witness ==
    /\ last.op = "update_batch" /\ last.status = 404 /\ last.tx = "rolled back"
    /\ last.payload.ingredients # <<>>
    /\ LinksAccepted(db, last.payload.ingredients)
    /\ ~\E b \in db.batches : b.id = last.id

====
